---- MODULE Spec2Model ----
(***************************************************************************)
(* Model of the CITSmart <-> Zabbix integration scripts.                   *)
(*                                                                         *)
(*   close.py : correlation of a Zabbix event with the CITSmart ticket     *)
(*              recorded in its acknowledges, and the two-phase closing    *)
(*              flow of that ticket (CITSmarTCloser).                      *)
(*   open.py  : opening of a ticket (CITSmarTAutomation) and the marker    *)
(*              written to the Zabbix event it was opened for.             *)
(*                                                                         *)
(* Specifications: Spec (close.py as a whole), SpecLive (the same as a     *)
(* running process), SpecCorr (the correlation on any event database),     *)
(* SpecExtract (extract_ticket_from_acks on any acknowledge list),         *)
(* SpecOpen (open.py as a whole), SpecTicket (salvar_meus_pedidos on any   *)
(* response body), SpecRound (the marker open.py writes, read back by      *)
(* close.py), SpecRepeat (close.py called again for an event whose ticket  *)
(* it has closed).                                                         *)
(*                                                                         *)
(* Python values are represented as follows.                               *)
(*   - an optional value (None or a value) is a sequence of length <= 1:   *)
(*     <<>> is None, <<v>> is v;                                           *)
(*   - a message is a sequence of tokens: "K" is the literal               *)
(*     CITSmartTicketID, "C" the literal CITSmartTicketClosed, "=" the     *)
(*     equals sign, " " one whitespace character, "0".."9" a digit, and    *)
(*     any other token an ordinary character;                              *)
(*   - a ticket number as text is the sequence of its digit tokens.        *)
(***************************************************************************)
EXTENDS Integers, Sequences, FiniteSets, TLC

\* ------------------------------------------------------------------ bounds

\* Largest number of events held by the monitoring system.
MaxEvents == 3

\* "limit" of the trigger window query.  The source asks for 20 events
\* (close.py line 124); the model keeps the window smaller than the number
\* of events so that truncation by the limit happens.
WindowLimit == 2

\* Largest number of acknowledges of the event extract_ticket_from_acks is
\* applied to on its own.
MaxAcks == 3

\* ------------------------------------------------------------ value helpers

None == <<>>

Some(v) == <<v>>

Digits == {"0", "1", "2", "3", "4", "5", "6", "7", "8", "9"}

Whitespace == {" "}

DigitVal(d) ==
    CASE d = "0" -> 0 [] d = "1" -> 1 [] d = "2" -> 2 [] d = "3" -> 3
      [] d = "4" -> 4 [] d = "5" -> 5 [] d = "6" -> 6 [] d = "7" -> 7
      [] d = "8" -> 8 [] d = "9" -> 9

\* int(text) of a text made of decimal digits.
RECURSIVE ToInt(_)
ToInt(ds) ==
    IF ds = <<>> THEN 0
    ELSE 10 * ToInt(SubSeq(ds, 1, Len(ds) - 1)) + DigitVal(ds[Len(ds)])

\* --------------------------------------------------- TICKET_RE and the acks

\* First position >= i of msg that holds no whitespace (Len(msg)+1 if none):
\* what the greedy \s* skips.
RECURSIVE SkipWs(_, _)
SkipWs(msg, i) ==
    IF i <= Len(msg) /\ msg[i] \in Whitespace THEN SkipWs(msg, i + 1) ELSE i

\* Last position of the run of digits that starts at position i: the greedy \d+.
RECURSIVE DigitsEnd(_, _)
DigitsEnd(msg, i) ==
    IF i + 1 <= Len(msg) /\ msg[i + 1] \in Digits THEN DigitsEnd(msg, i + 1) ELSE i

\* Position of the first digit when CITSmartTicketID\s*=\s*(\d+) matches at
\* position i of msg, 0 when it does not match there.
MatchAt(msg, i) ==
    IF msg[i] # "K" THEN 0
    ELSE LET j == SkipWs(msg, i + 1) IN
         IF j > Len(msg) \/ msg[j] # "=" THEN 0
         ELSE LET k == SkipWs(msg, j + 1) IN
              IF k > Len(msg) \/ msg[k] \notin Digits THEN 0 ELSE k

\* TICKET_RE.search(msg): group(1) of the leftmost match, None without a match.
TICKET_RE_search(msg) ==
    LET hits == {i \in 1..Len(msg) : MatchAt(msg, i) > 0} IN
    IF hits = {} THEN None
    ELSE LET i == CHOOSE x \in hits : \A y \in hits : x <= y
             k == MatchAt(msg, i)
         IN  SubSeq(msg, k, DigitsEnd(msg, k))

\* extract_ticket_from_acks: the ticket of the first acknowledge, in the order
\* of the list, whose message matches; None when none does.
RECURSIVE extract_from(_)
extract_from(acks) ==
    IF acks = <<>> THEN None
    ELSE LET m == TICKET_RE_search(Head(acks)) IN
         IF m # None THEN m ELSE extract_from(Tail(acks))

extract_last_marker(event_obj) ==
    LET acks == event_obj.acknowledges
        hits == {i \in 1..Len(acks) : TICKET_RE_search(acks[i]) # None}
    IN  IF hits = {} THEN None
        ELSE TICKET_RE_search(acks[CHOOSE x \in hits : \A y \in hits : x >= y])

\* extract_ticket_from_acks that looks at the first acknowledge only.
extract_first_ack_only(event_obj) ==
    IF event_obj.acknowledges = <<>> THEN None
    ELSE TICKET_RE_search(event_obj.acknowledges[1])

extract_ticket_from_acks(event_obj) == extract_from(event_obj.acknowledges)

\* ------------------------------------------------------------------ state

VARIABLES
    pc,          \* position of the running script
    args,        \* what the command line holds (main)
    db,          \* the monitoring system's events, in creation order
    zcalls,      \* the Zabbix API calls made so far, in order
    trigger_id,  \* find_ticket_for_zabbix_event: local trigger_id
    corr,        \* find_ticket_for_zabbix_event: the returned pair, None before
    trace,       \* the ticketing-system calls and resolution steps so far
    id_item,     \* executar_fluxo_fechamento: local id_item_trabalho
    dto1,        \* executar_fluxo_fechamento: local dto1
    dto2,        \* executar_fluxo_fechamento: local dto2
    dt_cap,      \* executar_fluxo_fechamento: local dt_cap
    stale,       \* the ticket was modified by someone else since the run last
                 \* obtained it or its timestamp from the server
    audit,       \* lines appended to the ticket log file
    exit,        \* the process exit status, None while running
    ticket_number, \* open.py: the ticket number salvar_meus_pedidos returned
    ret          \* open.py: what executar_fluxo_completo returned, None before

zvars == <<db, zcalls, trigger_id, corr>>

cvars == <<trace, id_item, dto1, dto2, dt_cap, stale, audit>>

ovars == <<ticket_number, ret>>

vars == <<pc, args, db, zcalls, trigger_id, corr, trace, id_item, dto1, dto2,
          dt_cap, stale, audit, exit, ticket_number, ret>>

\* ------------------------------------------------------ the monitoring system

Triggers == {"T1", "T2"}

MsgPlain == <<"x">>

MsgTicket5 == <<"K", "=", "5">>

MsgTicket7 == <<"K", " ", "=", " ", "7", "0", " ", "x">>

\* The acknowledge lists an event may carry: none, a plain note, a plain note
\* followed by a marker, and two markers.
AckLists ==
    {<<>>, <<MsgPlain>>, <<MsgPlain, MsgTicket5>>, <<MsgTicket7, MsgTicket5>>}

\* An event as stored: its trigger (objectid), its kind (value 1 = problem,
\* 0 = recovery) and its acknowledge messages in the order they were added.
\* The event's id and its clock are its position in db: events are created in
\* time order and no two events of the model share a clock.
StoredEvents == [objectid : Triggers, value : {0, 1}, acknowledges : AckLists]

Databases == UNION {[1..n -> StoredEvents] : n \in 0..MaxEvents}

\* The event object event.get returns for the event stored at position i, with
\* the fields the "output" and "select_acknowledges" parameters ask for.
\* pytype is the Python type of the list element: a dict for an event.
EventObj(d, i) ==
    [pytype |-> "dict", eventid |-> i, objectid |-> d[i].objectid,
     value |-> d[i].value, clock |-> i, acknowledges |-> d[i].acknowledges]

\* A list element that is no JSON object (a string, a number).
JunkElement ==
    [pytype |-> "str", eventid |-> 0, objectid |-> "", value |-> 0,
     clock |-> 0, acknowledges |-> <<>>]

\* event.get with eventids = [event_id].
ZbxEventsById(d, event_id) ==
    IF event_id \in 1..Len(d) THEN <<EventObj(d, event_id)>> ELSE <<>>

\* The problem events (value = 1) of a trigger among the events 1..i of d,
\* newest first (sortfield clock, sortorder DESC), at most n of them (limit).
RECURSIVE ProblemsDesc(_, _, _, _)
ProblemsDesc(d, trig, i, n) ==
    IF i = 0 \/ n = 0 THEN <<>>
    ELSE IF d[i].objectid = trig /\ d[i].value = 1
         THEN <<EventObj(d, i)>> \o ProblemsDesc(d, trig, i - 1, n - 1)
         ELSE ProblemsDesc(d, trig, i - 1, n)

\* The same query with sortorder ASC: the oldest problem events first.
ZbxProblemEventsAsc(d, trig) ==
    LET desc == ProblemsDesc(d, trig, Len(d), Len(d))
        asc  == [k \in 1..Len(desc) |-> desc[Len(desc) + 1 - k]]
    IN  SubSeq(asc, 1, IF Len(asc) < WindowLimit THEN Len(asc) ELSE WindowLimit)

\* event.get with objectids = [trigger_id], value = 1, sorted by clock DESC,
\* limit = WindowLimit.
ZbxProblemEvents(d, trig) == ProblemsDesc(d, trig, Len(d), WindowLimit)

\* A Python value returned by zabbix_api: None, a list, or some other truthy
\* value (a dict, a string, a number).
PyNone == [t |-> "none", v |-> <<>>]

PyList(l) == [t |-> "list", v |-> l]

PyOther == [t |-> "other", v |-> <<>>]

\* What one HTTP exchange with the Zabbix API can produce when the server's
\* answer to the request is the list l:
\*   raise   - requests.post or r.json() raises (transport, timeout, not JSON)
\*   error   - a JSON object with an "error" member (and here a "result" too)
\*   nondict - JSON that is not an object
\*   dict    - a JSON object without "error"; its "result" is missing, is not
\*             a list, is the list l, or is a list of something else.
ZbxResponses(l) ==
    {[kind |-> "raise", result |-> PyNone],
     [kind |-> "error", result |-> PyList(l)],
     [kind |-> "nondict", result |-> PyNone],
     [kind |-> "dict", result |-> PyNone],
     [kind |-> "dict", result |-> PyOther],
     [kind |-> "dict", result |-> PyList(l)],
     [kind |-> "dict", result |-> PyList(<<JunkElement>>)]}

\* zabbix_api without the check for an "error" member.
zabbix_api_no_error_check(resp) ==
    IF resp.kind = "raise" THEN PyNone
    ELSE IF resp.kind \in {"dict", "error"} THEN resp.result
    ELSE PyNone

\* zabbix_api: the value returned for one HTTP exchange.
zabbix_api(resp) ==
    IF resp.kind = "raise" THEN PyNone
    ELSE IF resp.kind = "error" THEN PyNone
    ELSE IF resp.kind = "dict" THEN resp.result
    ELSE PyNone

\* Python truthiness of a value returned by zabbix_api.
Truthy(res) == res.t = "other" \/ (res.t = "list" /\ res.v # <<>>)

\* get_event_with_acks, applied to what zabbix_api returned.
get_event_with_acks(res) ==
    IF ~Truthy(res) THEN None
    ELSE IF res.t = "list" /\ res.v # <<>> THEN Some(res.v[1])
    ELSE None

\* event_obj.get(...) raises AttributeError when event_obj is no dict.
Raises(event_obj) == event_obj.pytype # "dict"

\* First event of the list whose acknowledges carry a ticket, None if none.
RECURSIVE FirstWithTicket(_)
FirstWithTicket(l) ==
    IF l = <<>> THEN None
    ELSE IF extract_ticket_from_acks(Head(l)) # None THEN Some(Head(l))
    ELSE FirstWithTicket(Tail(l))

\* get_latest_problem_event_for_trigger without the scan for a ticket.
get_latest_first_only(res) ==
    IF ~Truthy(res) \/ res.t # "list" THEN None ELSE Some(res.v[1])

\* get_latest_problem_event_for_trigger without the fallback to res[0].
get_latest_marked_only(res) ==
    IF ~Truthy(res) \/ res.t # "list" THEN None ELSE FirstWithTicket(res.v)

\* get_latest_problem_event_for_trigger that hands back the event that
\* carries a ticket under the id of the most recent event.
get_latest_newest_id(res) ==
    IF ~Truthy(res) \/ res.t # "list" THEN None
    ELSE LET hit == FirstWithTicket(res.v) IN
         IF hit # None THEN Some([hit[1] EXCEPT !.eventid = res.v[1].eventid])
         ELSE Some(res.v[1])

\* get_latest_problem_event_for_trigger, applied to what zabbix_api returned.
get_latest_problem_event_for_trigger(res) ==
    IF ~Truthy(res) \/ res.t # "list" THEN None
    ELSE LET hit == FirstWithTicket(res.v) IN
         IF hit # None THEN hit ELSE Some(res.v[1])

\* The loop of get_latest_problem_event_for_trigger raises when it meets an
\* element that is no dict.
WindowRaises(res) ==
    /\ Truthy(res)
    /\ res.t = "list"
    /\ \E i \in 1..Len(res.v) : Raises(res.v[i])

NoCorr == [ticket |-> None, pev |-> None]

\* One Zabbix API call as made: the method, the eventids or objectids it names,
\* the kind of answer, the type of the answer's "result", whether that result
\* holds an element that is no event and, for event.acknowledge, the message.
ZCall(method, eventid, objectid, resp, message) ==
    [method |-> method, eventid |-> eventid, objectid |-> objectid,
     kind |-> resp.kind, rt |-> resp.result.t, message |-> message,
     junk |-> (resp.result.t = "list" /\ \E i \in 1..Len(resp.result.v) :
                                          Raises(resp.result.v[i]))]

\* find_ticket_for_zabbix_event, from its start to the return or to the
\* window query: the event fetch and the look at the event's own acknowledges.
\* An exception raised here is caught nowhere: the process ends with status 1.
CorrFetchEvent ==
    /\ pc = "corr_fetch"
    /\ \E resp \in ZbxResponses(ZbxEventsById(db, args.event_id)) :
         LET ev == get_event_with_acks(zabbix_api(resp)) IN
         /\ zcalls' = Append(zcalls, ZCall("event.get", Some(args.event_id),
                                           None, resp, <<>>))
         /\ IF ev = None
            THEN /\ corr' = Some(NoCorr)
                 /\ pc' = "corr_done"
                 /\ UNCHANGED <<trigger_id, exit>>
            ELSE IF Raises(ev[1])
            THEN /\ pc' = "crashed"
                 /\ exit' = Some(1)
                 /\ UNCHANGED <<corr, trigger_id>>
            ELSE LET t == extract_ticket_from_acks(ev[1]) IN
                 IF t # None
                 THEN /\ corr' = Some([ticket |-> t, pev |-> Some(ev[1].eventid)])
                      /\ pc' = "corr_done"
                      /\ UNCHANGED <<trigger_id, exit>>
                 ELSE IF ev[1].objectid = ""
                 THEN /\ corr' = Some(NoCorr)
                      /\ pc' = "corr_done"
                      /\ UNCHANGED <<trigger_id, exit>>
                 ELSE /\ trigger_id' = Some(ev[1].objectid)
                      /\ pc' = "corr_window"
                      /\ UNCHANGED <<corr, exit>>
    /\ UNCHANGED <<args, db>>
    /\ UNCHANGED cvars
    /\ UNCHANGED ovars

\* find_ticket_for_zabbix_event, from the window query to the return.
CorrQueryWindow ==
    /\ pc = "corr_window"
    /\ \E resp \in ZbxResponses(ZbxProblemEvents(db, trigger_id[1])) :
         LET res == zabbix_api(resp)
             last_problem == get_latest_problem_event_for_trigger(res)
         IN
         /\ zcalls' = Append(zcalls, ZCall("event.get", None, trigger_id,
                                           resp, <<>>))
         /\ IF WindowRaises(res)
            THEN /\ pc' = "crashed"
                 /\ exit' = Some(1)
                 /\ UNCHANGED corr
            ELSE /\ pc' = "corr_done"
                 /\ UNCHANGED exit
                 /\ IF last_problem = None
                    THEN corr' = Some(NoCorr)
                    ELSE corr' =
                           Some([ticket |-> extract_ticket_from_acks(last_problem[1]),
                                 pev |-> Some(last_problem[1].eventid)])
    /\ UNCHANGED <<args, db, trigger_id>>
    /\ UNCHANGED cvars
    /\ UNCHANGED ovars

\* ------------------------------------------------------ the ticketing system

\* The resolution fields of a ticket representation.
Resolution(status, acao, cat, causa, sol, det) ==
    [idStatus |-> status, acaoFluxo |-> acao, idCategoriaSolucao |-> cat,
     idCausaIncidente |-> causa, solucaoResposta |-> sol,
     detalhamentoCausa |-> det]

NoFields == Resolution(0, "", 0, 0, "", "")

\* The resolution fields the server holds for a ticket in progress, and after
\* its workflow engine advanced the ticket.
ServerFieldsOpen == Resolution(2, "I", 0, 0, "", "")

ServerFieldsAdvanced == Resolution(4, "A", 13, 0, "server", "")

\* A ticket representation (DTO).  A timestamp is "none" (no such field),
\* "srv_restore1", "srv_capture", "srv_restore2" (a server value, named after
\* the call that returned it) or "local" (the value of _now_dt()).
TicketDTO(id, wi, dt, usr, fields) ==
    [id |-> id, idItemTrabalho |-> wi, dtLastModification |-> dt,
     idUsuarioResponsavelAtual |-> usr, fields |-> fields,
     view |-> TRUE, commentMode |-> TRUE, original |-> FALSE]

NoDTO == TicketDTO(0, None, "none", None, NoFields)

\* The idItemTrabalho values a restored representation may hold: none, 0,
\* and two work items.
ServerWorkItems == {None, Some(0), Some(42), Some(43)}

\* The timestamp and the assigned user of a restored representation: both
\* missing, or both present.
ServerMeta(srvdt) == {[dt |-> "none", usr |-> None], [dt |-> srvdt, usr |-> Some(9)]}

\* What one exchange with restoreRequest can produce:
\*   raise      - session.post raises (transport, timeout)
\*   http_error - a status other than 200
\*   nonjson    - status 200 with a body that is not JSON
\*   noid       - status 200 with JSON that is no object with an "id" member
\*   ok         - status 200 with a ticket representation
RestoreResponses(ticket, metas, fields) ==
    { [status |-> st, dto |-> NoDTO] :
        st \in {"raise", "http_error", "nonjson", "noid"} }
    \cup
    { [status |-> "ok", dto |-> TicketDTO(ticket, wi, m.dt, m.usr, fields)] :
        wi \in ServerWorkItems, m \in metas }

\* restore_request without the test for the "id" member.
restore_request_no_id_check(resp) ==
    CASE resp.status = "raise" -> "raise"
      [] resp.status = "http_error" -> "die"
      [] resp.status = "nonjson" -> "die"
      [] OTHER -> "ok"

\* restore_request: "raise", "die" (exit status 2) or "ok" (the dto is returned).
restore_request(resp) ==
    CASE resp.status = "raise" -> "raise"
      [] resp.status = "http_error" -> "die"
      [] resp.status = "nonjson" -> "die"
      [] resp.status = "noid" -> "die"
      [] OTHER -> "ok"

\* The outcomes of an exchange of which only the status code is read.
PlainResponses == {"ok", "http_error", "raise"}

\* login that takes any answered request for a success.
login_any_status(resp) == resp # "raise"

\* login: True exactly when the status code is 200.
login(resp) == resp = "ok"

\* groups_for_capture that does not look at the status code.
groups_for_capture_any_status(resp) ==
    CASE resp = "raise" -> "raise" [] OTHER -> "ok"

\* groups_for_capture: "raise", "die" (exit status 2) or "ok".
groups_for_capture(resp) ==
    CASE resp = "raise" -> "raise" [] resp = "ok" -> "ok" [] OTHER -> "die"

\* save_or_update that does not look at the status code.
save_or_update_any_status(resp) ==
    CASE resp = "raise" -> "raise" [] OTHER -> "ok"

\* save_or_update: "raise", "die" (exit status 1) or "ok".
save_or_update(resp) ==
    CASE resp = "raise" -> "raise" [] resp = "ok" -> "ok" [] OTHER -> "die"

\* capturarTarefa: a transport error, a status other than 200, status 200 with
\* a body that is not JSON (capturar_tarefa returns {}), with a JSON object
\* with or without dtLastModification, or with JSON that is no object.
CaptureResponses ==
    { [status |-> "raise", dt |-> "none"],
      [status |-> "http_error", dt |-> "none"],
      [status |-> "nonjson", dt |-> "none"],
      [status |-> "json_nondict", dt |-> "none"],
      [status |-> "ok", dt |-> "none"],
      [status |-> "ok", dt |-> "srv_capture"] }

\* validateConcurrentAccess: a transport error, a status other than 200, a
\* body that is not JSON, or the server's verdict: negative exactly when the
\* ticket was modified by someone else in the meantime.
ValidateResponses ==
    {"raise", "http_error", "nonjson", IF stale THEN "negative" ELSE "positive"}

\* a or b of Python, on timestamps.
OrDt(a, b) == IF a # "none" THEN a ELSE b

\* A test for None where the source tests truthiness.
IsNotNone(o) == o # None

\* Python truthiness of an optional integer.
TruthyInt(o) == o # None /\ o[1] # 0

\* The work item of the first cycle: the caller's when given, else the one of
\* the restored representation.
FirstWorkItem(arg, restored) == IF arg = None THEN restored ELSE arg

\* The second cycle with the work item of the first.
SecondWorkItemCached(restored, first) == first

\* The work item of the second cycle: dto2.get("idItemTrabalho") or
\* id_item_trabalho.
SecondWorkItem(restored, first) ==
    IF TruthyInt(restored) THEN restored ELSE first

\* One step of the closing flow as recorded: a call to the ticketing system
\* (op, the outcome, and the work item, timestamp, user and resolution fields
\* it sent or, for restore and capture, received) or the application of the
\* resolution to a representation (op = "apply").  For validate and save,
\* stale tells whether the ticket had been modified by someone else when the
\* call was made.
Step(op, status, wi, dt, usr, fields) ==
    [op |-> op, status |-> status, wi |-> wi, dt |-> dt, usr |-> usr,
     fields |-> fields, stale |-> (op \in {"validate", "save"} /\ stale)]

\* aplicar_resolucao that keeps the restored resolution fields.
aplicar_resolucao_keeps(dto, params) ==
    [dto EXCEPT !.view = FALSE, !.commentMode = FALSE,
                !.dtLastModification = "local"]

\* aplicar_resolucao that keeps the timestamp of the representation it is given.
aplicar_resolucao_keeps_timestamp(dto, params) ==
    [dto EXCEPT !.fields = params, !.view = FALSE, !.commentMode = FALSE]

\* aplicar_resolucao.
aplicar_resolucao(dto, params) ==
    [dto EXCEPT !.fields = params, !.view = FALSE, !.commentMode = FALSE,
                !.dtLastModification = "local"]

\* _die(msg, code) and an exception that nothing catches.
Die(code) == pc' = "exited" /\ exit' = Some(code)

Crash == pc' = "crashed" /\ exit' = Some(1)

\* ----------------------------------------------------------------- main

\* The cause text main passes when the command line holds no positional
\* texts: the default, unless sys.argv[4] exists and does not start with
\* "--", which is the case of the value of a flag that directly follows the
\* second argument (fluxo 5001 --id-item-trabalho 41).
CauseWithoutTexts(default) ==
    IF args.wiflag = "ok" THEN "flag_value" ELSE default

\* The resolution parameters main passes: the values of the flags and of the
\* positional texts when given (the flags after the texts), the fixed
\* defaults otherwise.
MainParams ==
    IF args.custom
    THEN Resolution(5, "F", 14, 7, "sol_arg", "causa_arg")
    ELSE IF args.cmd = "zabbix"
    THEN Resolution(4, "E", 13, 6, "sol_zabbix_default",
                    CauseWithoutTexts("causa_zabbix_default"))
    ELSE Resolution(4, "E", 13, 6, "sol_fluxo_default",
                    CauseWithoutTexts("causa_fluxo_default"))

\* The ticket id executar_fluxo_fechamento is called with.
FlowTicket ==
    IF args.cmd = "zabbix" THEN ToInt(corr[1].ticket) ELSE args.ticket

\* The id_item_trabalho argument: the value of --id-item-trabalho or None.
FlowWorkItemArg == IF args.wiflag = "ok" THEN Some(args.wi) ELSE None

\* main, from its start to its first remote call or to its exit.
MainDispatch ==
    /\ pc = "main"
    /\ IF args.cmd = "none" THEN Die(1)
       ELSE IF args.wiflag = "bad" THEN Die(2)
       ELSE IF args.cmd = "token" THEN pc' = "token_login" /\ UNCHANGED exit
       ELSE IF args.cmd = "fluxo"
       THEN IF args.arg2 = "absent" THEN Die(1)
            ELSE IF args.arg2 = "nonint" THEN Die(2)
            ELSE pc' = "login" /\ UNCHANGED exit
       ELSE IF args.cmd = "zabbix"
       THEN IF args.arg2 = "absent" THEN Die(1)
            ELSE pc' = "corr_fetch" /\ UNCHANGED exit
       ELSE Die(1)
    /\ UNCHANGED <<args, zvars, cvars>>
    /\ UNCHANGED ovars

\* main, command token: login and report.
TokenLogin ==
    /\ pc = "token_login"
    /\ \E r \in PlainResponses :
         /\ trace' = Append(trace, Step("login", r, None, "none", None, NoFields))
         /\ IF r = "raise" THEN Crash ELSE Die(0)
    /\ UNCHANGED <<args, zvars, id_item, dto1, dto2, dt_cap, stale, audit>>
    /\ UNCHANGED ovars

\* main that tests the returned event id where the source tests the ticket.
MainAfterCorrelationTestsEvent ==
    /\ pc = "corr_done"
    /\ IF corr[1].pev = None THEN Die(2) ELSE pc' = "login" /\ UNCHANGED exit
    /\ UNCHANGED <<args, zvars, cvars>>
    /\ UNCHANGED ovars

\* main, command zabbix, after find_ticket_for_zabbix_event returned.
MainAfterCorrelation ==
    /\ pc = "corr_done"
    /\ IF corr[1].ticket = None THEN Die(2) ELSE pc' = "login" /\ UNCHANGED exit
    /\ UNCHANGED <<args, zvars, cvars>>
    /\ UNCHANGED ovars

\* --------------------------------------------- executar_fluxo_fechamento

FlowLogin ==
    /\ pc = "login"
    /\ \E r \in PlainResponses :
         /\ trace' = Append(trace, Step("login", r, None, "none", None, NoFields))
         /\ IF r = "raise" THEN Crash
            ELSE IF ~login(r) THEN Die(2)
            ELSE pc' = "restore1" /\ UNCHANGED exit
    /\ UNCHANGED <<args, zvars, id_item, dto1, dto2, dt_cap, stale, audit>>
    /\ UNCHANGED ovars

\* The first restore_request and the choice of the work item.
FlowRestore1 ==
    /\ pc = "restore1"
    /\ \E resp \in RestoreResponses(FlowTicket, ServerMeta("srv_restore1"),
                                    ServerFieldsOpen) :
         LET item == FirstWorkItem(FlowWorkItemArg, resp.dto.idItemTrabalho) IN
         /\ trace' = Append(trace, Step("restore", resp.status,
                                        resp.dto.idItemTrabalho,
                                        resp.dto.dtLastModification,
                                        resp.dto.idUsuarioResponsavelAtual,
                                        resp.dto.fields))
         /\ IF restore_request(resp) = "raise"
            THEN Crash /\ UNCHANGED <<id_item, dto1, stale>>
            ELSE IF restore_request(resp) = "die"
            THEN Die(2) /\ UNCHANGED <<id_item, dto1, stale>>
            ELSE IF FlowWorkItemArg = None /\ ~TruthyInt(item)
            THEN /\ Die(2)
                 /\ id_item' = item
                 /\ dto1' = resp.dto
                 /\ stale' = FALSE
            ELSE /\ pc' = "groups"
                 /\ id_item' = item
                 /\ dto1' = [resp.dto EXCEPT !.id = FlowTicket,
                                             !.idItemTrabalho = item]
                 /\ stale' = FALSE
                 /\ UNCHANGED exit
    /\ UNCHANGED <<args, zvars, dto2, dt_cap, audit>>
    /\ UNCHANGED ovars

FlowGroups ==
    /\ pc = "groups"
    /\ \E r \in PlainResponses :
         /\ trace' = Append(trace, Step("groups", r, id_item, "none", None, NoFields))
         /\ IF groups_for_capture(r) = "raise" THEN Crash
            ELSE IF groups_for_capture(r) = "die" THEN Die(2)
            ELSE pc' = "capture" /\ UNCHANGED exit
    /\ UNCHANGED <<args, zvars, id_item, dto1, dto2, dt_cap, stale, audit>>
    /\ UNCHANGED ovars

\* FlowCapture that makes the capture a second time when the first attempt
\* was answered with a status other than 200.
FlowCaptureRetries ==
    /\ pc = "capture"
    /\ \E resp \in CaptureResponses :
         /\ trace' = Append(trace, Step("capture", resp.status,
                                        dto1.idItemTrabalho, resp.dt, None,
                                        dto1.fields))
         /\ IF resp.status \in {"raise", "json_nondict"}
            THEN Crash /\ UNCHANGED <<dt_cap, stale>>
            ELSE IF resp.status = "http_error"
            THEN IF \E i \in 1..Len(trace) : trace[i].op = "capture"
                 THEN Die(2) /\ UNCHANGED <<dt_cap, stale>>
                 ELSE UNCHANGED <<pc, exit, dt_cap, stale>>
            ELSE /\ dt_cap' = OrDt(resp.dt, OrDt(dto1.dtLastModification, "local"))
                 /\ stale' = IF resp.dt # "none" THEN FALSE ELSE stale
                 /\ pc' = "validate"
                 /\ UNCHANGED exit
    /\ UNCHANGED <<args, zvars, id_item, dto1, dto2, audit>>
    /\ UNCHANGED ovars

\* capturar_tarefa and the choice of the timestamp to validate.
FlowCapture ==
    /\ pc = "capture"
    /\ \E resp \in CaptureResponses :
         /\ trace' = Append(trace, Step("capture", resp.status,
                                        dto1.idItemTrabalho, resp.dt, None,
                                        dto1.fields))
         /\ IF resp.status \in {"raise", "json_nondict"}
            THEN Crash /\ UNCHANGED <<dt_cap, stale>>
            ELSE IF resp.status = "http_error"
            THEN Die(2) /\ UNCHANGED <<dt_cap, stale>>
            ELSE /\ dt_cap' = OrDt(resp.dt, OrDt(dto1.dtLastModification, "local"))
                 /\ stale' = IF resp.dt # "none" THEN FALSE ELSE stale
                 /\ pc' = "validate"
                 /\ UNCHANGED exit
    /\ UNCHANGED <<args, zvars, id_item, dto1, dto2, audit>>
    /\ UNCHANGED ovars

\* The validation step with a negative or missing verdict made fatal.
FlowValidateAborts ==
    /\ pc = "validate"
    /\ \E r \in ValidateResponses :
         /\ IF r = "raise"
            THEN /\ Crash
                 /\ trace' = Append(trace, Step("validate", r, id_item, dt_cap,
                                dto1.idUsuarioResponsavelAtual, NoFields))
                 /\ UNCHANGED dto1
            ELSE IF r # "positive"
            THEN /\ Die(2)
                 /\ trace' = Append(trace, Step("validate", r, id_item, dt_cap,
                                dto1.idUsuarioResponsavelAtual, NoFields))
                 /\ UNCHANGED dto1
            ELSE /\ dto1' = [aplicar_resolucao(dto1, MainParams)
                                EXCEPT !.original = TRUE]
                 /\ trace' = trace \o
                      << Step("validate", r, id_item, dt_cap,
                              dto1.idUsuarioResponsavelAtual, NoFields),
                         Step("apply", "ok", dto1.idItemTrabalho, "local", None,
                              dto1'.fields) >>
                 /\ pc' = "save1"
                 /\ UNCHANGED exit
    /\ UNCHANGED <<args, zvars, id_item, dto2, dt_cap, stale, audit>>
    /\ UNCHANGED ovars

\* The validation step with a status other than 200 made fatal, as it is for
\* the other calls.
FlowValidateStatusFatal ==
    /\ pc = "validate"
    /\ \E r \in ValidateResponses :
         /\ IF r = "raise"
            THEN /\ Crash
                 /\ trace' = Append(trace, Step("validate", r, id_item, dt_cap,
                                dto1.idUsuarioResponsavelAtual, NoFields))
                 /\ UNCHANGED dto1
            ELSE IF r = "http_error"
            THEN /\ Die(2)
                 /\ trace' = Append(trace, Step("validate", r, id_item, dt_cap,
                                dto1.idUsuarioResponsavelAtual, NoFields))
                 /\ UNCHANGED dto1
            ELSE /\ dto1' = [aplicar_resolucao(dto1, MainParams)
                                EXCEPT !.original = TRUE]
                 /\ trace' = trace \o
                      << Step("validate", r, id_item, dt_cap,
                              dto1.idUsuarioResponsavelAtual, NoFields),
                         Step("apply", "ok", dto1.idItemTrabalho, "local", None,
                              dto1'.fields) >>
                 /\ pc' = "save1"
                 /\ UNCHANGED exit
    /\ UNCHANGED <<args, zvars, id_item, dto2, dt_cap, stale, audit>>
    /\ UNCHANGED ovars

\* validate_concurrent_access, whose result is dropped, and the first
\* aplicar_resolucao.
FlowValidate ==
    /\ pc = "validate"
    /\ \E r \in ValidateResponses :
         /\ IF r = "raise"
            THEN /\ Crash
                 /\ trace' = Append(trace, Step("validate", r, id_item, dt_cap,
                                dto1.idUsuarioResponsavelAtual, NoFields))
                 /\ UNCHANGED dto1
            ELSE /\ dto1' = [aplicar_resolucao(dto1, MainParams)
                                EXCEPT !.original = TRUE]
                 /\ trace' = trace \o
                      << Step("validate", r, id_item, dt_cap,
                              dto1.idUsuarioResponsavelAtual, NoFields),
                         Step("apply", "ok", dto1.idItemTrabalho, "local", None,
                              dto1'.fields) >>
                 /\ pc' = "save1"
                 /\ UNCHANGED exit
    /\ UNCHANGED <<args, zvars, id_item, dto2, dt_cap, stale, audit>>
    /\ UNCHANGED ovars

\* save_or_update of a representation.
SaveStep(dto, r) ==
    Step("save", r, dto.idItemTrabalho, dto.dtLastModification,
         dto.idUsuarioResponsavelAtual, dto.fields)

\* The first save_or_update followed at once by the second.
FlowSave1NoSecondRestore ==
    /\ pc = "save1"
    /\ \E r \in PlainResponses :
         /\ trace' = Append(trace, SaveStep(dto1, r))
         /\ IF save_or_update(r) = "raise" THEN Crash
            ELSE IF save_or_update(r) = "die" THEN Die(1)
            ELSE pc' = "save2" /\ UNCHANGED exit
    /\ dto2' = dto1
    /\ UNCHANGED <<args, zvars, id_item, dto1, dt_cap, stale, audit>>
    /\ UNCHANGED ovars

\* The first save_or_update.
FlowSave1 ==
    /\ pc = "save1"
    /\ \E r \in PlainResponses :
         /\ trace' = Append(trace, SaveStep(dto1, r))
         /\ IF save_or_update(r) = "raise" THEN Crash
            ELSE IF save_or_update(r) = "die" THEN Die(1)
            ELSE pc' = "restore2" /\ UNCHANGED exit
    /\ UNCHANGED <<args, zvars, id_item, dto1, dto2, dt_cap, stale, audit>>
    /\ UNCHANGED ovars

\* The second restore_request, the work item of the second cycle and the
\* second aplicar_resolucao.
FlowRestore2 ==
    /\ pc = "restore2"
    /\ \E resp \in RestoreResponses(FlowTicket,
                                    {[dt |-> "srv_restore2", usr |-> Some(9)]},
                                    ServerFieldsAdvanced) :
         LET id_item_2 == SecondWorkItem(resp.dto.idItemTrabalho, id_item)
             d2 == [resp.dto EXCEPT !.id = FlowTicket,
                                    !.idItemTrabalho = id_item_2]
         IN
         IF restore_request(resp) = "raise"
         THEN /\ Crash
              /\ trace' = Append(trace, Step("restore", resp.status, None,
                                             "none", None, NoFields))
              /\ UNCHANGED <<dto2, stale>>
         ELSE IF restore_request(resp) = "die"
         THEN /\ Die(2)
              /\ trace' = Append(trace, Step("restore", resp.status, None,
                                             "none", None, NoFields))
              /\ UNCHANGED <<dto2, stale>>
         ELSE /\ dto2' = [aplicar_resolucao(d2, MainParams)
                             EXCEPT !.original = TRUE]
              /\ stale' = FALSE
              /\ trace' = trace \o
                   << Step("restore", resp.status, resp.dto.idItemTrabalho,
                           resp.dto.dtLastModification,
                           resp.dto.idUsuarioResponsavelAtual, resp.dto.fields),
                      Step("apply", "ok", id_item_2, "local", None,
                           dto2'.fields) >>
              /\ pc' = "save2"
              /\ UNCHANGED exit
    /\ UNCHANGED <<args, zvars, id_item, dto1, dt_cap, audit>>
    /\ UNCHANGED ovars

\* FlowSave2 with the CLOSE line written before the second save_or_update
\* instead of after it.
FlowSave2LogsFirst ==
    /\ pc = "save2"
    /\ \E r \in PlainResponses, written \in BOOLEAN :
         /\ trace' = Append(trace, SaveStep(dto2, r))
         /\ audit' = IF written
                     THEN Append(audit, [action |-> "CLOSE", ticket |-> FlowTicket])
                     ELSE audit
         /\ IF save_or_update(r) = "raise" THEN Crash
            ELSE IF save_or_update(r) = "die" THEN Die(1)
            ELSE IF args.cmd = "zabbix"
            THEN pc' = "ack" /\ UNCHANGED exit
            ELSE Die(0)
    /\ UNCHANGED <<args, zvars, id_item, dto1, dto2, dt_cap, stale>>
    /\ UNCHANGED ovars

\* The second save_or_update, the CLOSE line of the ticket log (a failure to
\* write it is swallowed) and the return to main: the end of the process for
\* the command fluxo.
FlowSave2 ==
    /\ pc = "save2"
    /\ \E r \in PlainResponses, written \in BOOLEAN :
         /\ trace' = Append(trace, SaveStep(dto2, r))
         /\ IF save_or_update(r) = "raise" THEN Crash /\ UNCHANGED audit
            ELSE IF save_or_update(r) = "die" THEN Die(1) /\ UNCHANGED audit
            ELSE /\ audit' = IF written
                             THEN Append(audit, [action |-> "CLOSE",
                                                 ticket |-> FlowTicket])
                             ELSE audit
                 /\ IF args.cmd = "zabbix"
                    THEN pc' = "ack" /\ UNCHANGED exit
                    ELSE Die(0)
    /\ UNCHANGED <<args, zvars, id_item, dto1, dto2, dt_cap, stale>>
    /\ UNCHANGED ovars

\* Someone else modifies the ticket after the flow obtained it in the current
\* cycle and before the flow saves it.
OperatorModifies ==
    /\ pc \in {"validate", "save1", "save2"}
    /\ ~stale
    /\ stale' = TRUE
    /\ UNCHANGED <<pc, args, zvars, trace, id_item, dto1, dto2, dt_cap, audit, exit>>
    /\ UNCHANGED ovars

\* The closing annotation: CITSmartTicketClosed=<ticket_id>, the ticket id as
\* the correlation returned it.
ClosedMessage(ticket) == <<"C", "=">> \o ticket

\* event.acknowledge that replaces the event's acknowledges by the new
\* message.
ZbxAcknowledgeReplaces(d, eventid, message) ==
    IF eventid \in 1..Len(d)
    THEN [d EXCEPT ![eventid].acknowledges = <<message>>]
    ELSE d

\* event.acknowledge (action 6) on the event: its message is appended to the
\* event's acknowledges.
ZbxAcknowledge(d, eventid, message) ==
    IF eventid \in 1..Len(d)
    THEN [d EXCEPT ![eventid].acknowledges = Append(@, message)]
    ELSE d

\* The outcomes of event.acknowledge: a transport error, an API error, success.
AckResponses ==
    {[kind |-> "raise", result |-> PyNone],
     [kind |-> "error", result |-> PyNone],
     [kind |-> "dict", result |-> PyOther]}

\* MainAcknowledge that writes the annotation on the event of the command
\* line instead of the problem event the correlation returned.
MainAcknowledgeQueriedEvent ==
    /\ pc = "ack"
    /\ \E resp \in AckResponses, applied \in BOOLEAN :
         /\ (resp.kind = "error" => ~applied)
         /\ (resp.kind = "dict" => applied)
         /\ zcalls' = Append(zcalls,
                ZCall("event.acknowledge", Some(args.event_id), None, resp,
                      ClosedMessage(corr[1].ticket)))
         /\ db' = IF applied
                  THEN ZbxAcknowledge(db, args.event_id,
                                      ClosedMessage(corr[1].ticket))
                  ELSE db
    /\ Die(0)
    /\ UNCHANGED <<args, trigger_id, corr, cvars>>
    /\ UNCHANGED ovars

\* main, command zabbix, after the flow returned: zabbix_ack_problem_event on
\* the problem event, then the end of the process.  A request that failed in
\* transport may or may not have been applied by the server.
MainAcknowledge ==
    /\ pc = "ack"
    /\ IF corr[1].pev = None
       THEN UNCHANGED <<db, zcalls>>
       ELSE \E resp \in AckResponses, applied \in BOOLEAN :
              /\ (resp.kind = "error" => ~applied)
              /\ (resp.kind = "dict" => applied)
              /\ zcalls' = Append(zcalls,
                     ZCall("event.acknowledge", corr[1].pev, None, resp,
                           ClosedMessage(corr[1].ticket)))
              /\ db' = IF applied
                       THEN ZbxAcknowledge(db, corr[1].pev[1],
                                           ClosedMessage(corr[1].ticket))
                       ELSE db
    /\ Die(0)
    /\ UNCHANGED <<args, trigger_id, corr, cvars>>
    /\ UNCHANGED ovars

\* ------------------------------------------------------------ close.py

\* The databases the complete script is run against: a trigger with a marked
\* problem event and its recovery, and a trigger whose problem event carries
\* no marker.
ScenarioDBs ==
    { << [objectid |-> "T1", value |-> 1,
          acknowledges |-> <<MsgTicket7, MsgTicket5>>],
         [objectid |-> "T1", value |-> 0, acknowledges |-> <<>>] >>,
      << [objectid |-> "T1", value |-> 1, acknowledges |-> <<MsgPlain>>],
         [objectid |-> "T1", value |-> 0, acknowledges |-> <<>>] >> }

\* The command lines: no command, an unknown one, token, fluxo and zabbix,
\* with or without the second argument, with or without --id-item-trabalho
\* (well-formed for fluxo only), with or without the resolution flags and
\* texts (for fluxo only).
CommandLines ==
    [cmd : {"none", "other", "token"}, arg2 : {"absent"}, ticket : {0},
     event_id : {0}, wiflag : {"absent", "bad"}, wi : {0}, custom : {FALSE}]
    \cup
    [cmd : {"fluxo"}, arg2 : {"absent", "nonint", "ok"}, ticket : {5001},
     event_id : {0}, wiflag : {"absent", "bad", "ok"}, wi : {41},
     custom : BOOLEAN]
    \cup
    [cmd : {"zabbix"}, arg2 : {"absent", "ok"}, ticket : {0},
     event_id : 1..3, wiflag : {"absent", "bad"}, wi : {0},
     custom : {FALSE}]

Init ==
    /\ pc = "main"
    /\ args \in CommandLines
    /\ db \in ScenarioDBs
    /\ zcalls = <<>>
    /\ trigger_id = None
    /\ corr = None
    /\ trace = <<>>
    /\ id_item = None
    /\ dto1 = NoDTO
    /\ dto2 = NoDTO
    /\ dt_cap = "none"
    /\ stale = FALSE
    /\ audit = <<>>
    /\ exit = None
    /\ ticket_number = None
    /\ ret = None

Next ==
    \/ MainDispatch
    \/ TokenLogin
    \/ CorrFetchEvent
    \/ CorrQueryWindow
    \/ MainAfterCorrelation
    \/ FlowLogin
    \/ FlowRestore1
    \/ FlowGroups
    \/ FlowCapture
    \/ FlowValidate
    \/ FlowSave1
    \/ FlowRestore2
    \/ FlowSave2
    \/ MainAcknowledge
    \/ OperatorModifies

Spec == Init /\ [][Next]_vars

\* The steps of the process itself: every action but the one of the other
\* operator.
ProcessStep ==
    \/ MainDispatch
    \/ TokenLogin
    \/ CorrFetchEvent
    \/ CorrQueryWindow
    \/ MainAfterCorrelation
    \/ FlowLogin
    \/ FlowRestore1
    \/ FlowGroups
    \/ FlowCapture
    \/ FlowValidate
    \/ FlowSave1
    \/ FlowRestore2
    \/ FlowSave2
    \/ MainAcknowledge

\* close.py as a running process: the interpreter goes on to the next
\* statement, and every request is made with a connect and a read timeout,
\* so it returns or raises.
SpecLive == Spec /\ WF_vars(ProcessStep)

\* ------------------------- close.py called again after it closed a ticket

\* Bound: how many closing annotations the events, and how many lines the
\* ticket log, may hold when close.py is called once more.
MaxCloses == 1

\* The closing annotations the events of d hold.
ClosedCount(d) ==
    Cardinality(
      UNION { { <<i, k>> : k \in { n \in 1..Len(d[i].acknowledges) :
                                     /\ d[i].acknowledges[n] # <<>>
                                     /\ d[i].acknowledges[n][1] = "C" } } :
              i \in 1..Len(d) })

\* The command zabbix with an event id and nothing else.
InitRepeat ==
    /\ pc = "main"
    /\ args \in [cmd : {"zabbix"}, arg2 : {"ok"}, ticket : {0},
                 event_id : 1..2, wiflag : {"absent"}, wi : {0},
                 custom : {FALSE}]
    /\ db \in ScenarioDBs
    /\ zcalls = <<>>
    /\ trigger_id = None
    /\ corr = None
    /\ trace = <<>>
    /\ id_item = None
    /\ dto1 = NoDTO
    /\ dto2 = NoDTO
    /\ dt_cap = "none"
    /\ stale = FALSE
    /\ audit = <<>>
    /\ exit = None
    /\ ticket_number = None
    /\ ret = None

\* A run has ended with exit status 0 and an event holds its closing
\* annotation; the monitoring system calls close.py again, for an event it
\* holds already or for a recovery of the same trigger it has just created.
\* The new process starts with nothing but its command line; the events
\* and the ticket log are what the runs before left.  The monitoring system
\* holds at most MaxEvents events.
RepeatStart ==
    /\ pc = "exited"
    /\ exit = Some(0)
    /\ ClosedCount(db) \in 1..MaxCloses
    /\ Len(audit) <= MaxCloses
    /\ \E recovers \in BOOLEAN :
         /\ recovers => Len(db) < MaxEvents
         /\ db' = IF recovers
                  THEN Append(db, [objectid |-> db[1].objectid, value |-> 0,
                                   acknowledges |-> <<>>])
                  ELSE db
         /\ \E e \in 1..Len(db') :
              /\ recovers => e = Len(db')
              /\ args' = [args EXCEPT !.event_id = e]
    /\ pc' = "main"
    /\ exit' = None
    /\ zcalls' = <<>>
    /\ trigger_id' = None
    /\ corr' = None
    /\ trace' = <<>>
    /\ id_item' = None
    /\ dto1' = NoDTO
    /\ dto2' = NoDTO
    /\ dt_cap' = "none"
    /\ stale' = FALSE
    /\ UNCHANGED audit
    /\ UNCHANGED ovars

NextRepeat ==
    \/ MainDispatch
    \/ CorrFetchEvent
    \/ CorrQueryWindow
    \/ MainAfterCorrelation
    \/ FlowLogin
    \/ FlowRestore1
    \/ FlowGroups
    \/ FlowCapture
    \/ FlowValidate
    \/ FlowSave1
    \/ FlowRestore2
    \/ FlowSave2
    \/ MainAcknowledge
    \/ OperatorModifies
    \/ RepeatStart

SpecRepeat == InitRepeat /\ [][NextRepeat]_vars

\* ------------------------------------- the correlation alone, on any database

InitCorr ==
    /\ pc = "corr_fetch"
    /\ db \in Databases
    /\ args \in [cmd : {"zabbix"}, arg2 : {"ok"}, ticket : {0},
                 event_id : 1..(MaxEvents + 1), wiflag : {"absent"}, wi : {0},
                 custom : {FALSE}]
    /\ zcalls = <<>>
    /\ trigger_id = None
    /\ corr = None
    /\ trace = <<>>
    /\ id_item = None
    /\ dto1 = NoDTO
    /\ dto2 = NoDTO
    /\ dt_cap = "none"
    /\ stale = FALSE
    /\ audit = <<>>
    /\ exit = None
    /\ ticket_number = None
    /\ ret = None

NextCorr == CorrFetchEvent \/ CorrQueryWindow

SpecCorr == InitCorr /\ [][NextCorr]_vars

\* --------------------------- extract_ticket_from_acks alone, on any event

\* A key that no digits follow, and a message that holds two markers.
MsgNoDigits == <<"K", "=", "x">>

MsgTwoMarkers == <<"x", "K", "=", "9", " ", "K", "=", "5">>

AckMessages == {MsgPlain, MsgTicket5, MsgTicket7, MsgNoDigits, MsgTwoMarkers}

\* The acknowledge lists of up to MaxAcks messages, in every order.
AckInputs == UNION {[1..n -> AckMessages] : n \in 0..MaxAcks}

InitExtract ==
    /\ pc = "extract"
    /\ \E acks \in AckInputs :
         db = <<[objectid |-> "T1", value |-> 1, acknowledges |-> acks]>>
    /\ args \in [cmd : {"zabbix"}, arg2 : {"ok"}, ticket : {0}, event_id : {1},
                 wiflag : {"absent"}, wi : {0}, custom : {FALSE}]
    /\ zcalls = <<>>
    /\ trigger_id = None
    /\ corr = None
    /\ trace = <<>>
    /\ id_item = None
    /\ dto1 = NoDTO
    /\ dto2 = NoDTO
    /\ dt_cap = "none"
    /\ stale = FALSE
    /\ audit = <<>>
    /\ exit = None
    /\ ticket_number = None
    /\ ret = None

\* extract_ticket_from_acks applied to the event object of the event; the
\* returned value is kept as the ticket of corr.
ExtractApply ==
    /\ pc = "extract"
    /\ pc' = "extract_done"
    /\ corr' = Some([ticket |-> extract_ticket_from_acks(EventObj(db, 1)),
                     pev |-> None])
    /\ UNCHANGED <<args, db, zcalls, trigger_id, exit>>
    /\ UNCHANGED cvars
    /\ UNCHANGED ovars

NextExtract == ExtractApply

SpecExtract == InitExtract /\ [][NextExtract]_vars

\* ======================================================================
\* open.py
\* ======================================================================

\* One call of open.py to the ticketing system as recorded: the operation,
\* the outcome, the ticket id it names or, for commit, the ticket number it
\* yielded, and for delegate the idTarefa sent.
OpenStep(op, status, ticket, tarefa) ==
    [op |-> op, status |-> status, ticket |-> ticket, tarefa |-> tarefa]

\* login that takes any answered request for a success.
open_login_any_status(resp) == resp # "raise"

\* CITSmarTAutomation.login: True exactly when the request was answered with
\* status 200; an exception is caught and gives False.
open_login(resp) == resp = "ok"

\* adicionar_solicitacao_servico, abrir_atividade: the response, or None when
\* the request raised; "response and response.status_code == 200".
ResponseOk(resp) == resp = "ok"

\* The ticket numbers a commit answer can hold: digits, and a JSON value that
\* is no number.
TicketDigits == <<"5", "1">>

TicketText == <<"x", "7">>

\* int(ticket_number) raises ValueError unless the text is made of digits.
IsInt(t) == t # <<>> /\ \A i \in 1..Len(t) : t[i] \in Digits

\* ---- The answer of saveMeusPedidos and the ticket number read from it ----

\* Bound: the longest response text, in tokens.
MaxTextLen == 4

\* (\d{5,}): the fewest digits the last pattern takes for a ticket number.
MinBareDigits == 5

\* A response text is a sequence of tokens: a word, or a maximal run of digits
\* (w = "#", d its digits).  The words are what the patterns look for:
\*   esc           class=\#33#text-citsmart\#33# and the > after it
\*   h2            <h2 ... class="... text-citsmart ..." ...>
\*   span          <span ... class="... label-numero ..." ...>Ticket</span>
\*   /h2, /h3      </h2>, </h3>
\*   ticket, ticketNumber, number, id    these words, in any case
\*   " "           whitespace or a colon
\*   x             any other text
Word(w) == [w |-> w, d |-> <<>>]

DigitRun(d) == [w |-> "#", d |-> d]

ShortRun == <<"5", "1">>

LongRun == <<"5", "2", "6", "0", "6">>

TextTokens ==
    { Word(w) : w \in {"esc", "h2", "span", "/h2", "/h3", "ticket",
                       "ticketNumber", "number", "id", " ", "x"} }
    \cup { DigitRun(ShortRun), DigitRun(LongRun) }

\* The texts of at most MaxTextLen tokens; two runs of digits never touch.
Texts ==
    { t \in UNION { [1..n -> TextTokens] : n \in 0..MaxTextLen } :
        \A i \in 1..(Len(t) - 1) : ~(t[i].w = "#" /\ t[i + 1].w = "#") }

WordAt(t, i, ws) == i <= Len(t) /\ t[i].w \in ws

RunAt(t, i) == i <= Len(t) /\ t[i].w = "#"

\* \s* and [:\s]*: the first position from i on that holds no whitespace.
RECURSIVE SkipSpace(_, _)
SkipSpace(t, i) ==
    IF WordAt(t, i, {" "}) THEN SkipSpace(t, i + 1) ELSE i

\* \s*(\d+)\s*</h..> from position i: where the digits are, 0 without a match.
Headed(t, i, closers) ==
    LET j == SkipSpace(t, i) IN
    IF RunAt(t, j) /\ WordAt(t, SkipSpace(t, j + 1), closers) THEN j ELSE 0

\* [:\s]*(\d+) from position i: where the digits are, 0 without a match.
Labelled(t, i) ==
    LET j == SkipSpace(t, i) IN IF RunAt(t, j) THEN j ELSE 0

\* The patterns of the list, in its order: where the group of pattern k is
\* when the pattern matches at position i, 0 when it does not match there.
\* "number" is also found inside "ticketNumber".
patterns == 1..8

PatternAt(k, t, i) ==
    CASE k = 1 -> IF WordAt(t, i, {"esc"})
                  THEN Headed(t, i + 1, {"/h2", "/h3"}) ELSE 0
      [] k = 2 -> IF WordAt(t, i, {"h2"})
                  THEN Headed(t, i + 1, {"/h2"}) ELSE 0
      [] k = 3 -> IF WordAt(t, i, {"span"}) /\ WordAt(t, i + 1, {"h2"})
                  THEN Headed(t, i + 2, {"/h2", "/h3"}) ELSE 0
      [] k = 4 -> IF WordAt(t, i, {"ticket"}) THEN Labelled(t, i + 1) ELSE 0
      [] k = 5 -> IF WordAt(t, i, {"ticketNumber"}) THEN Labelled(t, i + 1) ELSE 0
      [] k = 6 -> IF WordAt(t, i, {"number", "ticketNumber"})
                  THEN Labelled(t, i + 1) ELSE 0
      [] k = 7 -> IF WordAt(t, i, {"id"}) THEN Labelled(t, i + 1) ELSE 0
      [] k = 8 -> IF RunAt(t, i) /\ Len(t[i].d) >= MinBareDigits THEN i ELSE 0

\* re.search(pattern, text, re.IGNORECASE) and match.group(1): the group of
\* the leftmost match, None without a match.
RECURSIVE re_search_from(_, _, _)
re_search_from(k, t, i) ==
    IF i > Len(t) THEN None
    ELSE IF PatternAt(k, t, i) # 0 THEN t[PatternAt(k, t, i)].d
    ELSE re_search_from(k, t, i + 1)

re_search(k, t) == re_search_from(k, t, 1)

\* The loop over the patterns, from pattern k on.
RECURSIVE ticket_from_patterns(_, _)
ticket_from_patterns(k, t) ==
    IF k \notin patterns THEN None
    ELSE IF re_search(k, t) # None THEN re_search(k, t)
    ELSE ticket_from_patterns(k + 1, t)

\* The except json.JSONDecodeError branch.
ticket_from_text(t) == ticket_from_patterns(1, t)

\* The members the code looks for in a JSON body, in the order of its chain.
FieldNames == <<"ticketNumber", "ticket", "number", "id">>

Member(present, value) == [present |-> present, value |-> value]

NoMember == Member(FALSE, None)

\* The value of a member that is there: None stands for every value that is
\* false (null, 0, "", ...).
FieldValue(f) ==
    CASE f = "ticketNumber" -> <<"1">>
      [] f = "ticket" -> <<"2">>
      [] f = "number" -> <<"3">>
      [] f = "id" -> <<"4">>

NoMembers == [f \in {"ticketNumber", "ticket", "number", "id"} |-> NoMember]

\* A response body: text (response.json() raises JSONDecodeError), a JSON
\* object or list with its members, or other JSON (a number, true, null), in
\* which "in" raises TypeError.  text is response.text.
Body(type, members, text) == [type |-> type, members |-> members, text |-> text]

NoBody == Body("none", NoMembers, <<>>)

\* The text of a JSON object: each member that is there, its name and value
\* between quotes and colons, then the rest of the object.
RECURSIVE JsonSource(_, _, _)
JsonSource(members, i, rest) ==
    IF i > Len(FieldNames) THEN rest
    ELSE LET m == members[FieldNames[i]] IN
         (IF m.present
          THEN <<Word(FieldNames[i]), Word("x")>> \o
               (IF IsInt(m.value) THEN <<DigitRun(m.value)>> ELSE <<>>) \o
               <<Word("x")>>
          ELSE <<>>)
         \o JsonSource(members, i + 1, rest)

JsonObject(members, rest) == Body("object", members, JsonSource(members, 1, rest))

\* The bodies a status 200 comes with.
JsonObjects ==
    { JsonObject(m, rest) :
        m \in { mm \in [{"ticketNumber", "ticket", "number", "id"} ->
                          { Member(p, v) : p \in BOOLEAN,
                                           v \in {None, <<"1">>, <<"2">>, <<"3">>, <<"4">>} }] :
                  \A f \in DOMAIN mm :
                      /\ mm[f].value \in {None, FieldValue(f)}
                      /\ ~mm[f].present => mm[f].value = None },
        rest \in { <<Word("x")>>,
                   <<Word("x"), DigitRun(LongRun), Word("x")>>,
                   <<Word("h2"), DigitRun(ShortRun), Word("/h2")>> } }

Bodies ==
    JsonObjects
    \cup { Body("list", NoMembers, <<Word("x")>>),
           Body("scalar", NoMembers, <<DigitRun(ShortRun)>>) }
    \cup { Body("text", NoMembers, t) : t \in Texts }

\* The chain of "in" tests from member i on: the value of the first member
\* that is there, None when there is none.
RECURSIVE first_member(_, _)
first_member(members, i) ==
    IF i > Len(FieldNames) THEN None
    ELSE IF members[FieldNames[i]].present THEN members[FieldNames[i]].value
    ELSE first_member(members, i + 1)

\* The part of salvar_meus_pedidos that reads a status 200: raised says that
\* an exception reached the outer handler (the pair is then (None, None)).
ticket_from_response(body) ==
    CASE body.type = "text" -> [raised |-> FALSE, ticket |-> ticket_from_text(body.text)]
      [] body.type = "scalar" -> [raised |-> TRUE, ticket |-> None]
      [] OTHER -> [raised |-> FALSE, ticket |-> first_member(body.members, 1)]

\* What saveMeusPedidos can be answered with: session.post raises, a status
\* other than 200, or status 200 with one of these bodies.
CommitBodies ==
    { JsonObject([NoMembers EXCEPT !["ticketNumber"] = Member(TRUE, TicketDigits)],
                 <<Word("x")>>),
      JsonObject([NoMembers EXCEPT !["ticket"] = Member(TRUE, TicketText)],
                 <<Word("x")>>),
      JsonObject(NoMembers, <<Word("x")>>),
      Body("scalar", NoMembers, <<DigitRun(ShortRun)>>),
      Body("text", NoMembers, <<Word("h2"), DigitRun(TicketDigits), Word("/h2")>>),
      Body("text", NoMembers, <<Word("x")>>) }

CommitResponses ==
    { [kind |-> k, body |-> NoBody] : k \in {"raise", "http_error"} }
    \cup { [kind |-> "ok", body |-> b] : b \in CommitBodies }

\* salvar_meus_pedidos: the pair (response, ticket_number) as its callers read
\* it: whether "response and response.status_code == 200" holds, and the
\* ticket number (None when there is none).
salvar_meus_pedidos(resp) ==
    CASE resp.kind = "raise" -> [ok |-> FALSE, ticket |-> None]
      [] resp.kind = "http_error" -> [ok |-> FALSE, ticket |-> None]
      [] OTHER ->
           LET r == ticket_from_response(resp.body) IN
           [ok |-> ~r.raised, ticket |-> r.ticket]

\* How the answer is noted in the trace:
\*   raise, http_error           - no status 200
\*   json_ticket, json_noticket  - a JSON object or list, with or without a ticket
\*   json_scalar                 - JSON that is no container
\*   text_ticket, text_noticket  - no JSON, with or without a ticket
CommitAnswer(resp) ==
    IF resp.kind # "ok" THEN resp.kind
    ELSE IF resp.body.type = "scalar" THEN "json_scalar"
    ELSE IF resp.body.type = "text"
    THEN (IF ticket_from_response(resp.body).ticket # None
          THEN "text_ticket" ELSE "text_noticket")
    ELSE (IF ticket_from_response(resp.body).ticket # None
          THEN "json_ticket" ELSE "json_noticket")

\* What the restoreRequest of delegar_tarefa can be answered with: a transport
\* error, a status other than 200, a body that is no JSON object, or a JSON
\* object; tarefa is str(dto.get("idItemTrabalho", "")): "" when the member
\* is missing, "None" when it is null, else its digits; sol is the value of
\* idSolicitacaoServico or id when one is there and true.
DelegRestoreResponses ==
    { [status |-> st, tarefa |-> "", sol |-> None] :
        st \in {"raise", "http_error", "nonjson"} }
    \cup
    { [status |-> "ok", tarefa |-> t, sol |-> sl] :
        t \in {"", "None", "42"}, sl \in {None, <<"9", "9">>} }

\* What the openAtividade of delegar_tarefa can be answered with; tarefa is
\* the idTarefa the patterns find in the text, "" when they find none.
DelegActivityResponses ==
    { [status |-> st, tarefa |-> ""] : st \in {"raise", "http_error", "ok"} }
    \cup { [status |-> "ok", tarefa |-> "43"] }

\* zabbix_acknowledge that appends the description right after the ticket
\* number, without the separator.
MarkerMessageNoSeparator(ticket, observacao) ==
    <<"K", "=">> \o ticket \o observacao

\* The message zabbix_acknowledge writes: CITSmartTicketID=<ticket_number>,
\* followed by " | " and the description when there is one.
MarkerMessage(ticket, observacao) ==
    <<"K", "=">> \o ticket \o
    (IF observacao # <<>> THEN <<" ", "|", " ">> \o observacao ELSE <<>>)

\* main returns: the process ends with status 0.
OpenEnd == pc' = "exited" /\ exit' = Some(0)

\* The state of close.py, which open.py does not have.
closelocals == <<trigger_id, corr, id_item, dto1, dto2, dt_cap, stale>>

\* main of open.py without the test of the event value.
OpenDispatchAnyValue ==
    /\ pc = "o_main"
    /\ IF args.cmd \in {"none", "other"} THEN OpenEnd
       ELSE IF args.cmd = "zabbix" /\ args.argc = "short" THEN OpenEnd
       ELSE pc' = "o_login" /\ UNCHANGED exit
    /\ UNCHANGED <<args, db, zcalls, trace, audit, ticket_number, ret>>
    /\ UNCHANGED closelocals

\* main of open.py, from its start to the login or to its return.
OpenDispatch ==
    /\ pc = "o_main"
    /\ IF args.cmd \in {"none", "other"} THEN OpenEnd
       ELSE IF args.cmd = "zabbix" /\ args.argc = "short" THEN OpenEnd
       ELSE IF args.cmd = "zabbix" /\ args.event_value # "1" THEN OpenEnd
       ELSE pc' = "o_login" /\ UNCHANGED exit
    /\ UNCHANGED <<args, db, zcalls, trace, audit, ticket_number, ret>>
    /\ UNCHANGED closelocals

\* login, and what each command does when it fails.
OpenLogin ==
    /\ pc = "o_login"
    /\ \E r \in PlainResponses :
         /\ trace' = Append(trace, OpenStep("login", r, None, ""))
         /\ IF args.cmd = "token" THEN OpenEnd /\ UNCHANGED ret
            ELSE IF ~open_login(r)
            THEN /\ OpenEnd
                 /\ ret' = IF args.cmd = "fluxo" THEN Some(FALSE) ELSE ret
            ELSE /\ pc' = CASE args.cmd = "salvar" -> "o_commit"
                             [] args.cmd = "abrir" -> "o_activity"
                             [] OTHER -> "o_add"
                 /\ UNCHANGED <<exit, ret>>
    /\ UNCHANGED <<args, db, zcalls, audit, ticket_number>>
    /\ UNCHANGED closelocals

\* adicionar_solicitacao_servico and what its caller does with the response.
OpenAdd ==
    /\ pc = "o_add"
    /\ \E r \in PlainResponses :
         /\ trace' = Append(trace, OpenStep("add", r, None, ""))
         /\ IF args.cmd = "adicionar" THEN OpenEnd
            ELSE IF args.cmd = "zabbix" /\ ~ResponseOk(r) THEN OpenEnd
            ELSE pc' = "o_commit" /\ UNCHANGED exit
    /\ UNCHANGED <<args, db, zcalls, audit, ticket_number, ret>>
    /\ UNCHANGED closelocals

\* salvar_meus_pedidos and what its caller does with the returned pair.
OpenCommit ==
    /\ pc = "o_commit"
    /\ \E resp \in CommitResponses :
         LET res == salvar_meus_pedidos(resp) IN
         /\ trace' = Append(trace, OpenStep("commit", CommitAnswer(resp), res.ticket, ""))
         /\ ticket_number' = res.ticket
         /\ IF args.cmd = "zabbix"
            THEN IF res.ok THEN pc' = "o_activity" /\ UNCHANGED exit ELSE OpenEnd
            ELSE IF res.ok /\ res.ticket # None
            THEN pc' = "o_info" /\ UNCHANGED exit
            ELSE IF args.cmd = "fluxo"
            THEN pc' = "o_activity" /\ UNCHANGED exit
            ELSE OpenEnd
    /\ UNCHANGED <<args, db, zcalls, audit, ret>>
    /\ UNCHANGED closelocals

\* _get_ticket_activity_info (its restoreRequest is made unless
\* int(ticket_number) raises; every failure is swallowed) and the OPEN line
\* of the ticket log (a failure to write it is swallowed).
OpenInfoLog ==
    /\ pc = "o_info"
    /\ \E r \in PlainResponses, written \in BOOLEAN :
         /\ trace' = IF IsInt(ticket_number)
                     THEN Append(trace, OpenStep("restore_info", r,
                                                 ticket_number, ""))
                     ELSE trace
         /\ audit' = IF written
                     THEN Append(audit, [action |-> "OPEN",
                                         ticket |-> ticket_number])
                     ELSE audit
    /\ IF args.cmd = "salvar" THEN OpenEnd
       ELSE IF args.cmd = "zabbix" THEN pc' = "o_deleg" /\ UNCHANGED exit
       ELSE pc' = "o_activity" /\ UNCHANGED exit
    /\ UNCHANGED <<args, db, zcalls, ticket_number, ret>>
    /\ UNCHANGED closelocals

\* The step after abrir_atividade without the test for a ticket number.
OpenActivityNoTicketTest ==
    /\ pc = "o_activity"
    /\ \E r \in PlainResponses :
         /\ trace' = Append(trace, OpenStep("activity", r, None, ""))
         /\ IF args.cmd = "abrir" THEN OpenEnd /\ UNCHANGED ret
            ELSE IF args.cmd = "zabbix"
            THEN pc' = "o_info" /\ UNCHANGED <<exit, ret>>
            ELSE IF ResponseOk(r)
            THEN pc' = "o_deleg" /\ UNCHANGED <<exit, ret>>
            ELSE OpenEnd /\ ret' = Some(TRUE)
    /\ UNCHANGED <<args, db, zcalls, audit, ticket_number>>
    /\ UNCHANGED closelocals

\* abrir_atividade and what its caller does with the response.
OpenActivity ==
    /\ pc = "o_activity"
    /\ \E r \in PlainResponses :
         /\ trace' = Append(trace, OpenStep("activity", r, None, ""))
         /\ IF args.cmd = "abrir" THEN OpenEnd /\ UNCHANGED ret
            ELSE IF args.cmd = "zabbix"
            THEN /\ UNCHANGED ret
                 /\ IF ticket_number # None
                    THEN pc' = "o_info" /\ UNCHANGED exit
                    ELSE OpenEnd
            ELSE IF ResponseOk(r) /\ ticket_number # None
            THEN pc' = "o_deleg" /\ UNCHANGED <<exit, ret>>
            ELSE OpenEnd /\ ret' = Some(TRUE)
    /\ UNCHANGED <<args, db, zcalls, audit, ticket_number>>
    /\ UNCHANGED closelocals

\* delegar_tarefa in a command zabbix that stops at a delegation that was not
\* answered with 200.
OpenDelegateFailureStops ==
    /\ pc = "o_deleg"
    /\ args.cmd = "zabbix"
    /\ \E r \in PlainResponses :
         /\ trace' = Append(trace, OpenStep("delegate", r, ticket_number, ""))
         /\ IF ResponseOk(r) THEN pc' = "o_ack" /\ UNCHANGED exit ELSE OpenEnd
    /\ UNCHANGED <<args, db, zcalls, audit, ticket_number, ret>>
    /\ UNCHANGED closelocals

\* delegar_tarefa: the restoreRequest (made unless int(ticket_number)
\* raises), the openAtividade made when no idTarefa was obtained, and the
\* delegation itself; every failure is swallowed.
OpenDelegate ==
    /\ pc = "o_deleg"
    /\ \E rr \in DelegRestoreResponses, ra \in DelegActivityResponses,
          rp \in PlainResponses :
         LET asked == IsInt(ticket_number)
             got == asked /\ rr.status = "ok"
             tarefa1 == IF got THEN rr.tarefa ELSE ""
             sol == IF got /\ rr.sol # None THEN rr.sol ELSE ticket_number
             tarefa2 == IF tarefa1 = "" /\ ra.status = "ok" /\ ra.tarefa # ""
                        THEN ra.tarefa ELSE tarefa1
         IN
         trace' = trace
            \o (IF asked
                THEN <<OpenStep("restore_deleg", rr.status, ticket_number, "")>>
                ELSE <<>>)
            \o (IF tarefa1 = ""
                THEN <<OpenStep("activity", ra.status, None, "")>>
                ELSE <<>>)
            \o <<OpenStep("delegate", rp, sol, tarefa2)>>
    /\ IF args.cmd = "zabbix"
       THEN pc' = "o_ack" /\ UNCHANGED <<exit, ret>>
       ELSE OpenEnd /\ ret' = Some(TRUE)
    /\ UNCHANGED <<args, db, zcalls, audit, ticket_number>>
    /\ UNCHANGED closelocals

\* zabbix_acknowledge on the event of the command line, then the return of
\* main.  open.py's zabbix_api swallows every failure; a request that failed
\* in transport may or may not have been applied by the server.
OpenAcknowledge ==
    /\ pc = "o_ack"
    /\ \E resp \in AckResponses, applied \in BOOLEAN :
         /\ (resp.kind = "error" => ~applied)
         /\ (resp.kind = "dict" => applied)
         /\ zcalls' = Append(zcalls,
                ZCall("event.acknowledge", Some(args.event_id), None, resp,
                      MarkerMessage(ticket_number, args.obs)))
         /\ db' = IF applied
                  THEN ZbxAcknowledge(db, args.event_id,
                                      MarkerMessage(ticket_number, args.obs))
                  ELSE db
    /\ OpenEnd
    /\ UNCHANGED <<args, trace, audit, ticket_number, ret>>
    /\ UNCHANGED closelocals

\* The command lines of open.py: no command, an unknown one, token, fluxo,
\* adicionar, salvar, abrir (the description given or not), and zabbix with
\* fewer than three arguments or with an event id, an event value (1, 0, or
\* the text 01) and a description that may be missing.
OpenCommandLines ==
    [cmd : {"none", "other", "token", "fluxo", "adicionar", "salvar", "abrir"},
     argc : {"ok"}, event_id : {0}, event_value : {""}, obs : {<<"x">>}]
    \cup
    [cmd : {"zabbix"}, argc : {"short", "ok"}, event_id : {1},
     event_value : {"1", "0", "01"}, obs : {<<>>, <<"x">>}]

\* The events open.py is run against: a problem event without acknowledges,
\* alone or followed by its recovery.
OpenDBs ==
    { << [objectid |-> "T1", value |-> 1, acknowledges |-> <<>>] >>,
      << [objectid |-> "T1", value |-> 1, acknowledges |-> <<MsgPlain>>],
         [objectid |-> "T1", value |-> 0, acknowledges |-> <<>>] >> }

InitOpen ==
    /\ pc = "o_main"
    /\ args \in OpenCommandLines
    /\ db \in OpenDBs
    /\ zcalls = <<>>
    /\ trigger_id = None
    /\ corr = None
    /\ trace = <<>>
    /\ id_item = None
    /\ dto1 = NoDTO
    /\ dto2 = NoDTO
    /\ dt_cap = "none"
    /\ stale = FALSE
    /\ audit = <<>>
    /\ exit = None
    /\ ticket_number = None
    /\ ret = None

NextOpen ==
    \/ OpenDispatch
    \/ OpenLogin
    \/ OpenAdd
    \/ OpenCommit
    \/ OpenInfoLog
    \/ OpenActivity
    \/ OpenDelegate
    \/ OpenAcknowledge

SpecOpen == InitOpen /\ [][NextOpen]_vars

\* ---- salvar_meus_pedidos alone: every body of a status 200 ----

InitTicket ==
    /\ pc = "o_commit"
    /\ args \in [cmd : {"salvar"}, argc : {"ok"}, event_id : {0},
                 event_value : {""}, obs : {<<"x">>}]
    /\ db = <<>>
    /\ zcalls = <<>>
    /\ trigger_id = None
    /\ corr = None
    /\ trace = <<>>
    /\ id_item = None
    /\ dto1 = NoDTO
    /\ dto2 = NoDTO
    /\ dt_cap = "none"
    /\ stale = FALSE
    /\ audit = <<>>
    /\ exit = None
    /\ ticket_number = None
    /\ ret = None

\* saveMeusPedidos is answered with status 200 and a body, and
\* salvar_meus_pedidos reads the ticket number from it; the body is noted
\* with the returned pair.
TicketApply ==
    /\ pc = "o_commit"
    /\ \E body \in Bodies :
         LET res == salvar_meus_pedidos([kind |-> "ok", body |-> body]) IN
         /\ trace' = Append(trace, [op |-> "commit", body |-> body, ok |-> res.ok])
         /\ ticket_number' = res.ticket
    /\ pc' = "ticket_done"
    /\ UNCHANGED <<args, db, zcalls, audit, exit, ret>>
    /\ UNCHANGED closelocals

NextTicket == TicketApply

SpecTicket == InitTicket /\ [][NextTicket]_vars

\* ---- open.py writes the marker on an event, close.py then correlates it ----

\* Bound: the longest description, in tokens.
MaxDescLen == 3

\* The descriptions open.py is given: any text, which may itself hold the
\* key, "=" and digits.
Descriptions ==
    UNION { [1..n -> {"K", "=", "9", "x"}] : n \in 0..MaxDescLen }

\* The ticket numbers open.py has obtained: texts made of digits.
NumericTickets == { <<"5">>, <<"0", "7">> }

\* The problem event open.py is called for: without acknowledges, with
\* acknowledges that hold no marker, or with one that holds a marker already.
RoundDBs ==
    { << [objectid |-> "T1", value |-> 1, acknowledges |-> acks] >> :
        acks \in {<<>>, <<MsgPlain>>, <<MsgNoDigits, MsgPlain>>, <<MsgTicket7>>} }

\* open.py, command zabbix, at the point where it has the ticket number and
\* is about to acknowledge the event.
InitRound ==
    /\ pc = "o_ack"
    /\ args \in [cmd : {"zabbix"}, argc : {"ok"}, event_id : {1},
                 event_value : {"1"}, obs : Descriptions]
    /\ db \in RoundDBs
    /\ ticket_number \in NumericTickets
    /\ zcalls = <<>>
    /\ trigger_id = None
    /\ corr = None
    /\ trace = <<>>
    /\ id_item = None
    /\ dto1 = NoDTO
    /\ dto2 = NoDTO
    /\ dt_cap = "none"
    /\ stale = FALSE
    /\ audit = <<>>
    /\ exit = None
    /\ ret = None

\* open.py has ended; close.py is started with the command zabbix for the
\* same event and enters find_ticket_for_zabbix_event.
RoundCloseStart ==
    /\ pc = "exited"
    /\ "argc" \in DOMAIN args
    /\ args' = [cmd |-> "zabbix", arg2 |-> "ok", ticket |-> 0,
                event_id |-> args.event_id, wiflag |-> "absent", wi |-> 0,
                custom |-> FALSE]
    /\ pc' = "corr_fetch"
    /\ exit' = None
    /\ UNCHANGED <<db, zcalls, trigger_id, corr>>
    /\ UNCHANGED cvars
    /\ UNCHANGED ovars

NextRound ==
    \/ OpenAcknowledge
    \/ RoundCloseStart
    \/ CorrFetchEvent
    \/ CorrQueryWindow

SpecRound == InitRound /\ [][NextRound]_vars

\* ======================================================================
\* Properties
\* ======================================================================

\* ------------------------------------------- what a ticket marker is

\* msg holds a marker that starts at position i and whose digits are k..e:
\* the key, optional whitespace, "=", optional whitespace, and a maximal run
\* of digits.
IsMarker(msg, i, k, e) ==
    /\ 1 <= i /\ i < k /\ k <= e /\ e <= Len(msg)
    /\ msg[i] = "K"
    /\ \E j \in (i + 1)..(k - 1) :
         /\ msg[j] = "="
         /\ \A x \in ((i + 1)..(k - 1)) \ {j} : msg[x] \in Whitespace
    /\ \A x \in k..e : msg[x] \in Digits
    /\ (e = Len(msg) \/ msg[e + 1] \notin Digits)

MarkerStarts(msg) ==
    {i \in 1..Len(msg) : \E k, e \in 1..Len(msg) : IsMarker(msg, i, k, e)}

HasMarker(msg) == MarkerStarts(msg) # {}

\* The ticket of the first marker of a message that has one.
MarkerTicket(msg) ==
    LET i == CHOOSE x \in MarkerStarts(msg) : \A y \in MarkerStarts(msg) : x <= y
        ke == CHOOSE p \in (1..Len(msg)) \X (1..Len(msg)) :
                 IsMarker(msg, i, p[1], p[2])
    IN  SubSeq(msg, ke[1], ke[2])

\* The ticket an event's annotations carry: that of the first annotation, in
\* the order of the list, that holds a marker; None when none holds one.
EventTicket(acks) ==
    LET marked == {n \in 1..Len(acks) : HasMarker(acks[n])} IN
    IF marked = {} THEN None
    ELSE MarkerTicket(acks[CHOOSE n \in marked : \A m \in marked : n <= m])

\* The problem events of a trigger, and those of them in the scan window: the
\* WindowLimit most recent ones.
ProblemsOf(trig) == {i \in 1..Len(db) : db[i].objectid = trig /\ db[i].value = 1}

WindowOf(trig) ==
    {i \in ProblemsOf(trig) :
        Cardinality({j \in ProblemsOf(trig) : j > i}) < WindowLimit}

Newest(S) == CHOOSE i \in S : \A j \in S : j <= i

\* The call answered with what the monitoring system holds.
Served(c) == c.kind = "dict" /\ c.rt = "list" /\ ~c.junk

QueriedExists == args.event_id \in 1..Len(db)

Queried == db[args.event_id]

\* ------------------------------------------------------------------- C1
\* C1: when the queried event's own annotations hold a ticket marker and the
\* event fetch is answered, find_ticket_for_zabbix_event returns that ticket
\* and the queried event's id, and has made no other call: the trigger's
\* events are not queried.
C1_OwnMarkerReturnsEvent ==
    ( /\ Len(zcalls) >= 1
      /\ Served(zcalls[1])
      /\ QueriedExists
      /\ EventTicket(Queried.acknowledges) # None )
    => /\ pc = "corr_done"
       /\ corr = Some([ticket |-> EventTicket(Queried.acknowledges),
                       pev |-> Some(args.event_id)])
       /\ Len(zcalls) = 1

\* A problem event with two markers was queried and the run has returned.
C1_Witness ==
    /\ pc = "corr_done"
    /\ Len(zcalls) = 1
    /\ Served(zcalls[1])
    /\ QueriedExists
    /\ Queried.value = 1
    /\ Queried.acknowledges = <<MsgTicket7, MsgTicket5>>
    /\ corr = Some([ticket |-> <<"7", "0">>, pev |-> Some(args.event_id)])

\* ------------------------------------------------------------------- C2
\* C2: when the queried event is a recovery without a marker and the most
\* recent problem event of its trigger carries a marker, the correlation,
\* both queries answered, returns that marker's ticket and that problem
\* event's id, whatever older problem events the trigger has.
C2_RecoveryFindsLatestMarked ==
    ( /\ Len(zcalls) = 2
      /\ Served(zcalls[1])
      /\ Served(zcalls[2])
      /\ QueriedExists
      /\ Queried.value = 0
      /\ EventTicket(Queried.acknowledges) = None
      /\ ProblemsOf(Queried.objectid) # {}
      /\ EventTicket(db[Newest(ProblemsOf(Queried.objectid))].acknowledges) # None )
    => LET p == Newest(ProblemsOf(Queried.objectid)) IN
       /\ pc = "corr_done"
       /\ corr = Some([ticket |-> EventTicket(db[p].acknowledges), pev |-> Some(p)])

\* A recovery whose trigger has an older problem event with another ticket
\* and a most recent problem event with a marker has been correlated.
C2_Witness ==
    /\ pc = "corr_done"
    /\ Len(zcalls) = 2
    /\ Served(zcalls[1])
    /\ Served(zcalls[2])
    /\ QueriedExists
    /\ Queried.value = 0
    /\ Cardinality(ProblemsOf(Queried.objectid)) >= 2
    /\ \E i \in ProblemsOf(Queried.objectid) :
         /\ i # Newest(ProblemsOf(Queried.objectid))
         /\ EventTicket(db[i].acknowledges) # None
         /\ corr[1].ticket # EventTicket(db[i].acknowledges)
    /\ corr[1].ticket # None
    /\ corr[1].pev = Some(Newest(ProblemsOf(Queried.objectid)))

\* ------------------------------------------------------------------- C3
\* C3: when the queried event has no marker, the scan window of its trigger
\* is not empty and no event of the window carries a marker, the
\* correlation, both queries answered, returns no ticket together with the
\* id of the most recent problem event of the window.
C3_NoMarkerReturnsLatestProblem ==
    ( /\ Len(zcalls) = 2
      /\ Served(zcalls[1])
      /\ Served(zcalls[2])
      /\ QueriedExists
      /\ EventTicket(Queried.acknowledges) = None
      /\ WindowOf(Queried.objectid) # {}
      /\ \A i \in WindowOf(Queried.objectid) : EventTicket(db[i].acknowledges) = None )
    => /\ pc = "corr_done"
       /\ corr = Some([ticket |-> None,
                       pev |-> Some(Newest(WindowOf(Queried.objectid)))])

\* The window holds unmarked events only while an older problem event of the
\* trigger, cut off by the limit, carries a marker.
C3_Witness ==
    /\ pc = "corr_done"
    /\ Len(zcalls) = 2
    /\ Served(zcalls[2])
    /\ QueriedExists
    /\ WindowOf(Queried.objectid) # {}
    /\ \A i \in WindowOf(Queried.objectid) : EventTicket(db[i].acknowledges) = None
    /\ \E i \in ProblemsOf(Queried.objectid) \ WindowOf(Queried.objectid) :
         EventTicket(db[i].acknowledges) # None
    /\ corr[1].ticket = None
    /\ corr[1].pev # None

\* ------------------------------------------------------------------- C4
\* A call that failed in transport, was not parseable or carried an API error.
CallFailed(c) == c.kind \in {"raise", "error"}

\* C4: when the last monitoring-system call of the correlation failed
\* (transport, unparseable answer, API error), or the window query was
\* answered with an empty list, the correlation has returned (None, None):
\* it has not raised and returns nothing else.
C4_FailuresGiveNoneNone ==
    ( /\ Len(zcalls) >= 1
      /\ \/ CallFailed(zcalls[Len(zcalls)])
         \/ /\ Len(zcalls) = 2
            /\ Served(zcalls[2])
            /\ ProblemsOf(trigger_id[1]) = {} )
    => /\ pc = "corr_done"
       /\ corr = Some(NoCorr)

\* The window query failed with an API error although the trigger's most
\* recent problem event carries a marker.
C4_Witness ==
    /\ pc = "corr_done"
    /\ Len(zcalls) = 2
    /\ zcalls[2].kind = "error"
    /\ ProblemsOf(trigger_id[1]) # {}
    /\ EventTicket(db[Newest(ProblemsOf(trigger_id[1]))].acknowledges) # None
    /\ corr = Some(NoCorr)

\* ------------------------------------------------ the closing flow's steps

\* The positions of the trace that hold a step of the given kind.
StepsOf(op) == {i \in 1..Len(trace) : trace[i].op = op}

Saves == StepsOf("save")

Restores == StepsOf("restore")

Earliest(S) == CHOOSE i \in S : \A j \in S : i <= j

IsCycleStep(st) == st.op \in {"restore", "apply", "save"}

\* executar_fluxo_fechamento has returned to main.
FlowReturned ==
    \/ args.cmd = "fluxo" /\ pc = "exited" /\ exit = Some(0)
    \/ args.cmd = "zabbix" /\ pc = "ack"
    \/ args.cmd = "zabbix" /\ pc = "exited" /\ exit = Some(0)

\* A restored representation supplies a work item: the field is there and
\* is not 0.
SuppliesWorkItem(st) == st.wi # None /\ st.wi # Some(0)

\* No call of the first cycle after the restore, and no save, was made.
NothingAfterFirstRestore ==
    StepsOf("groups") \cup StepsOf("capture") \cup StepsOf("validate")
        \cup Saves = {}

\* ------------------------------------------------------------------- C5
\* C5: a closing flow that returned has made exactly two restoreRequest
\* calls and two saveOrUpdate calls, all successful, as two cycles: restore,
\* application of the resolution, save, and the same again.
C5_TwoCyclesOnSuccess ==
    FlowReturned =>
        LET cyc == SelectSeq(trace, IsCycleStep) IN
        /\ [i \in 1..Len(cyc) |-> cyc[i].op]
             = <<"restore", "apply", "save", "restore", "apply", "save">>
        /\ \A i \in 1..Len(cyc) : cyc[i].status = "ok"
        /\ Cardinality(Restores) = 2
        /\ Cardinality(Saves) = 2

\* A flow started by the command fluxo has ended with exit status 0.
C5_Witness ==
    /\ args.cmd = "fluxo"
    /\ FlowReturned
    /\ Cardinality(Saves) = 2
    /\ audit # <<>>

\* ------------------------------------------------------------------- C6
\* C6: once the first saveOrUpdate was answered with a status other than 200
\* the process has ended with exit status 1 and that save was its last step:
\* one restore, one save, no CLOSE line in the ticket log and no
\* event.acknowledge call.
C6_FirstSaveFailureAborts ==
    ( Saves # {} /\ trace[Earliest(Saves)].status = "http_error" )
    => /\ pc = "exited"
       /\ exit = Some(1)
       /\ Earliest(Saves) = Len(trace)
       /\ Cardinality(Restores) = 1
       /\ Cardinality(Saves) = 1
       /\ audit = <<>>
       /\ \A i \in 1..Len(zcalls) : zcalls[i].method # "event.acknowledge"
       /\ \A i \in 1..Len(db) : \A k \in 1..Len(db[i].acknowledges) :
            db[i].acknowledges[k][1] # "C"

\* The first save of a run started from a recovery event was refused.
C6_Witness ==
    /\ args.cmd = "zabbix"
    /\ args.event_id = 2
    /\ corr # None
    /\ corr[1].pev = Some(1)
    /\ Saves # {}
    /\ trace[Earliest(Saves)].status = "http_error"
    /\ pc = "exited"

\* ------------------------------------------------------------------- C7
\* C7: once login was answered with a status other than 200 the login is the
\* only call made to the ticketing system: no restore, group listing,
\* capture, validation or save; and a closing run has ended with exit
\* status 2.
C7_LoginFailureAborts ==
    ( trace # <<>> /\ trace[1].op = "login" /\ trace[1].status = "http_error" )
    => /\ Len(trace) = 1
       /\ pc = "exited"
       /\ (args.cmd # "token" => exit = Some(2))

\* The login of a closing run was refused.
C7_Witness ==
    /\ args.cmd = "fluxo"
    /\ Len(trace) = 1
    /\ trace[1].op = "login"
    /\ trace[1].status = "http_error"
    /\ exit = Some(2)

\* ------------------------------------------------------------------- C8
\* The validations made in the cycle of the save at position i, before it.
ValidationsBefore(i) ==
    {j \in StepsOf("validate") : j < i /\ \A k \in Saves : ~(j < k /\ k < i)}

\* C8 as stated: every save is preceded, in its own cycle, by a validation of
\* the timestamp, and no save is sent in a cycle whose validation found the
\* ticket modified by someone else (a stale timestamp).
C8_StaleNeverSaved ==
    \A i \in Saves :
        /\ ValidationsBefore(i) # {}
        /\ \A j \in ValidationsBefore(i) : trace[j].status # "negative"

\* C8 as amended: the validation is made once, in the first cycle only and
\* before the first save, with the timestamp that cycle obtained (the one
\* capture returned, else the one of the first restore, else the local
\* clock); every first save follows it; and whatever the validation answers,
\* short of a transport error, the flow goes on to the first save: neither a
\* negative verdict nor a stale ticket aborts the cycle.
C8_ValidationIsAdvisory ==
    /\ Cardinality(StepsOf("validate")) <= 1
    /\ \A j \in StepsOf("validate") :
         /\ \A i \in Saves : j < i
         /\ StepsOf("capture") # {} /\ Restores # {}
         /\ LET cap == trace[Earliest(StepsOf("capture"))].dt
                rst == trace[Earliest(Restores)].dt
            IN  trace[j].dt = IF cap # "none" THEN cap
                              ELSE IF rst # "none" THEN rst ELSE "local"
         /\ trace[j].status # "raise" =>
              (pc = "save1" \/ \E i \in Saves : i > j)
    /\ \A i \in Saves : \E j \in StepsOf("validate") : j < i

\* A ticket modified by someone else, and validated negatively, was saved in
\* the first cycle, and the second cycle saved a ticket modified in between.
C8_Witness ==
    /\ Cardinality(Saves) = 2
    /\ \A i \in Saves : trace[i].stale /\ trace[i].status = "ok"
    /\ \E j \in StepsOf("validate") : trace[j].status = "negative"

\* ------------------------------------------------------------------- C9
\* C9: when the caller gives no work item and the first restore supplies
\* one, the group listing, the capture, the validation and the first save
\* carry that work item; the second save carries the work item of the second
\* restore when that restore supplies one, and the one of the first cycle
\* otherwise.
C9_WorkItemPerCycle ==
    ( /\ FlowWorkItemArg = None
      /\ Restores # {}
      /\ trace[Earliest(Restores)].status = "ok"
      /\ SuppliesWorkItem(trace[Earliest(Restores)]) )
    => LET r1 == Earliest(Restores)
           first == trace[r1].wi
       IN
       /\ \A i \in StepsOf("groups") \cup StepsOf("capture")
                     \cup StepsOf("validate") : trace[i].wi = first
       /\ Saves # {} => trace[Earliest(Saves)].wi = first
       /\ \A i \in Saves : i # Earliest(Saves) =>
            LET r2 == CHOOSE r \in Restores : r # r1 IN
            trace[i].wi = IF SuppliesWorkItem(trace[r2]) THEN trace[r2].wi
                          ELSE first

\* The first restore supplied work item 42 and the second 43; both saves
\* were made.
C9_Witness ==
    /\ FlowWorkItemArg = None
    /\ Cardinality(Restores) = 2
    /\ Cardinality(Saves) = 2
    /\ trace[Earliest(Restores)].wi = Some(42)
    /\ \E r \in Restores : trace[r].wi = Some(43)
    /\ \E i \in Saves : trace[i].wi = Some(43)
    /\ trace[Earliest(Saves)].wi = Some(42)

\* A second restore without a work item: the first cycle's is sent again.
C9_WitnessReuse ==
    /\ FlowWorkItemArg = None
    /\ Cardinality(Restores) = 2
    /\ Cardinality(Saves) = 2
    /\ trace[Earliest(Restores)].wi = Some(42)
    /\ \E r \in Restores : trace[r].status = "ok" /\ trace[r].wi = None
    /\ \A i \in Saves : trace[i].wi = Some(42)

\* ------------------------------------------------------------------ C10
\* C10: when the caller gives no work item and the representation of the
\* first restore holds none (the field is missing or 0), the process has
\* ended with exit status 2 right after that restore: no group listing, no
\* capture, no validation and no save has been made.
C10_MissingWorkItemAborts ==
    ( /\ FlowWorkItemArg = None
      /\ Restores # {}
      /\ trace[Earliest(Restores)].status = "ok"
      /\ ~SuppliesWorkItem(trace[Earliest(Restores)]) )
    => /\ pc = "exited"
       /\ exit = Some(2)
       /\ Len(trace) = 2
       /\ NothingAfterFirstRestore

\* The first restore returned idItemTrabalho 0 and the run has ended.
C10_Witness ==
    /\ FlowWorkItemArg = None
    /\ Len(trace) = 2
    /\ trace[2].op = "restore"
    /\ trace[2].status = "ok"
    /\ trace[2].wi = Some(0)
    /\ exit = Some(2)

\* ------------------------------------------------------------------ C11
\* The exit status of a refused login of a closing run (_die("Falha no
\* login.", 2)) and of a refused save (_die(..., 1) in save_or_update).
AuthCode == 2

SaveCode == 1

\* The command line is malformed: no command, an unknown one, a missing
\* second argument, a ticket id or a --id-item-trabalho that is no integer.
UsageError ==
    \/ args.cmd \in {"none", "other"}
    \/ args.wiflag = "bad"
    \/ args.cmd \in {"fluxo", "zabbix"} /\ args.arg2 = "absent"
    \/ args.cmd = "fluxo" /\ args.arg2 = "nonint"

\* The run ended on a login answered with a status other than 200.
AuthFailure ==
    /\ trace # <<>>
    /\ trace[Len(trace)].op = "login"
    /\ trace[Len(trace)].status = "http_error"

\* The run ended on a save answered with a status other than 200.
SaveFailure ==
    /\ trace # <<>>
    /\ trace[Len(trace)].op = "save"
    /\ trace[Len(trace)].status = "http_error"

\* The command did all it was asked to do.
RunSucceeded ==
    \/ args.cmd = "token" /\ trace # <<>> /\ trace[1].status = "ok"
    \/ args.cmd \in {"fluxo", "zabbix"} /\ FlowReturned /\ pc = "exited"

\* C11 as stated: a process that has exited did so with 0 after a success
\* and with a status other than 0 after an authentication failure, a save
\* failure or a usage error, and the status tells the three kinds apart: the
\* status of a usage error is neither that of an authentication failure nor
\* that of a save failure, which differ from each other.
C11_ExitCodesSeparateKinds ==
    pc = "exited" =>
        /\ RunSucceeded => exit = Some(0)
        /\ AuthFailure => exit = Some(AuthCode)
        /\ SaveFailure => exit = Some(SaveCode)
        /\ UsageError => exit \notin {Some(0), Some(AuthCode), Some(SaveCode)}
        /\ AuthCode # SaveCode /\ AuthCode # 0 /\ SaveCode # 0

\* ------------------------------------------------------------------ C12
\* The steps of the trace whose HTTP exchange raised (connection refused,
\* timeout): session.post did not return.
RaisedSteps == {i \in 1..Len(trace) : trace[i].status = "raise"}

\* C12 as stated: an exchange with the ticketing system that raised is
\* caught where the call is made: the run either goes on or has ended
\* through _die with the status of its kind; it is never ended by the
\* exception itself.  The calls are those of executar_fluxo_fechamento.
C12_NoTransportExceptionEscapes ==
    (args.cmd \in {"fluxo", "zabbix"} /\ RaisedSteps # {}) => pc # "crashed"

\* ------------------------------------------------------------------ C13
\* The answers validateConcurrentAccess can give: a verdict, a status other
\* than 200, a body that is not JSON.
ValidationAnswers == {"positive", "negative", "http_error", "nonjson"}

\* C13: whatever validateConcurrentAccess answered, the next step of the run
\* is the application of the resolution to the first representation, and the
\* step after that, made or about to be made, is the first save: the answer
\* ends nothing and skips nothing.
C13_ValidationNeverChangesFlow ==
    \A j \in StepsOf("validate") :
        trace[j].status \in ValidationAnswers =>
            /\ Len(trace) > j
            /\ trace[j + 1].op = "apply"
            /\ trace[j + 1].fields = MainParams
            /\ \/ pc = "save1" /\ Len(trace) = j + 1
               \/ Len(trace) > j + 1 /\ trace[j + 2].op = "save"
            /\ ~(pc = "exited" /\ Len(trace) = j + 1)

\* Validation was answered with a status other than 200 and the flow went on
\* through both saves to its return.
C13_Witness ==
    /\ \E j \in StepsOf("validate") : trace[j].status = "http_error"
    /\ Cardinality(Saves) = 2
    /\ FlowReturned

\* ------------------------------------------------------------------ C14
\* The restore answers the flow cannot go on with: a status other than 200,
\* a body that is not JSON, JSON that is no object with an "id" member.
RestoreRefusals == {"http_error", "nonjson", "noid"}

\* C14: a restore answered with a refusal is the last step of the run, which
\* has ended with exit status 2: no save follows it, no CLOSE line is in the
\* ticket log and no closing annotation was sent.  When the refused restore is
\* the first, no save was made at all; when it is the second, exactly one
\* save was made, the successful first one.
C14_RestoreFailureAborts ==
    \A r \in Restores :
        trace[r].status \in RestoreRefusals =>
            /\ r = Len(trace)
            /\ pc = "exited"
            /\ exit = Some(2)
            /\ audit = <<>>
            /\ \A i \in 1..Len(zcalls) : zcalls[i].method # "event.acknowledge"
            /\ IF r = Earliest(Restores)
               THEN Saves = {}
               ELSE /\ Cardinality(Restores) = 2
                    /\ Cardinality(Saves) = 1
                    /\ \A i \in Saves : i < r /\ trace[i].status = "ok"

\* The second restore returned JSON without "id" after a successful first
\* save, and the run has ended.
C14_Witness ==
    /\ Cardinality(Restores) = 2
    /\ trace[Len(trace)].op = "restore"
    /\ trace[Len(trace)].status = "noid"
    /\ Cardinality(Saves) = 1
    /\ audit = <<>>
    /\ exit = Some(2)

\* ------------------------------------------------------------------ C15
\* The remote calls of a complete closing run, in order.
FixedCallOrder ==
    <<"login", "restore", "groups", "capture", "validate", "save", "restore",
      "save">>

IsRemoteCall(st) == st.op # "apply"

\* The operations of the remote calls made so far, in order.
CallOps ==
    LET calls == SelectSeq(trace, IsRemoteCall) IN
    [i \in 1..Len(calls) |-> calls[i].op]

\* A capture the server accepted: status 200, whatever its body.
CaptureAccepted(st) == st.op = "capture" /\ st.status \in {"ok", "nonjson"}

\* C15: the remote calls made so far are a prefix of the fixed order; at most
\* one capture is made, and before every save; every save has an accepted
\* capture before it; and a group listing or a capture answered with a status
\* other than 200 is the last step of the run, which has ended with exit
\* status 2 without any save.
C15_CallsArePrefixOfFixedOrder ==
    /\ Len(CallOps) <= Len(FixedCallOrder)
    /\ CallOps = SubSeq(FixedCallOrder, 1, Len(CallOps))
    /\ Cardinality(StepsOf("capture")) <= 1
    /\ \A i \in Saves :
         \E c \in StepsOf("capture") : c < i /\ CaptureAccepted(trace[c])
    /\ \A g \in StepsOf("groups") \cup StepsOf("capture") :
         trace[g].status = "http_error" =>
            /\ g = Len(trace)
            /\ pc = "exited"
            /\ exit = Some(2)
            /\ Saves = {}

\* The capture was refused after an accepted group listing and the run has
\* ended without a save.
C15_Witness ==
    /\ CallOps = <<"login", "restore", "groups", "capture">>
    /\ trace[Len(trace)].status = "http_error"
    /\ pc = "exited"
    /\ Saves = {}

\* All eight calls of the fixed order were made.
C15_WitnessComplete == CallOps = FixedCallOrder /\ FlowReturned

\* ------------------------------------------------------------------ C16
\* C16: every save carries, in the six resolution fields, the parameters
\* executar_fluxo_fechamento was called with (what main took from the command
\* line, or the defaults), whatever the restored representation of its cycle
\* held; so the second save carries the same six values as the first.
C16_SavesCarryCallerResolution ==
    /\ \A i \in Saves : trace[i].fields = MainParams
    /\ \A i, j \in Saves : trace[i].fields = trace[j].fields

\* Both saves were made with the caller's values although the first restore
\* and the second returned two other sets of values.
C16_Witness ==
    /\ Cardinality(Saves) = 2
    /\ Cardinality(Restores) = 2
    /\ args.custom
    /\ \A i \in Saves :
         trace[i].fields = Resolution(5, "F", 14, 7, "sol_arg", "causa_arg")
    /\ \E r \in Restores : trace[r].fields = ServerFieldsOpen
    /\ \E r \in Restores : trace[r].fields = ServerFieldsAdvanced

\* ------------------------------------------------------------------ C17
\* The events of the scan window of a trigger that carry a marker.
MarkedInWindow(trig) ==
    {i \in WindowOf(trig) : EventTicket(db[i].acknowledges) # None}

\* C17: when the queried event has no marker and some problem event of the
\* scan window of its trigger carries one, the correlation, both queries
\* answered, returns the ticket and the id of the most recent marked event
\* of the window: the more recent events without a marker are passed over.
C17_NewestMarkedInWindow ==
    ( /\ Len(zcalls) = 2
      /\ Served(zcalls[1])
      /\ Served(zcalls[2])
      /\ QueriedExists
      /\ EventTicket(Queried.acknowledges) = None
      /\ MarkedInWindow(Queried.objectid) # {} )
    => LET p == Newest(MarkedInWindow(Queried.objectid)) IN
       /\ pc = "corr_done"
       /\ corr = Some([ticket |-> EventTicket(db[p].acknowledges), pev |-> Some(p)])

\* The most recent problem event of the trigger has no marker and an older
\* one of the window has: the older one was returned with its ticket.
C17_Witness ==
    /\ pc = "corr_done"
    /\ Len(zcalls) = 2
    /\ Served(zcalls[1])
    /\ Served(zcalls[2])
    /\ QueriedExists
    /\ MarkedInWindow(Queried.objectid) # {}
    /\ Newest(ProblemsOf(Queried.objectid)) \notin MarkedInWindow(Queried.objectid)
    /\ corr[1].ticket # None
    /\ corr[1].pev = Some(Newest(MarkedInWindow(Queried.objectid)))
    /\ corr[1].pev # Some(Newest(ProblemsOf(Queried.objectid)))

\* ------------------------------------------------------------------ C18
\* The acknowledges of the event extract_ticket_from_acks was applied to, and
\* the positions of those that hold a marker.
GivenAcks == db[1].acknowledges

MarkedAcks == {n \in 1..Len(GivenAcks) : HasMarker(GivenAcks[n])}

\* C18: extract_ticket_from_acks returns the ticket of the first marker of
\* the first acknowledge, in the order of the list, that holds a marker, and
\* None when no acknowledge holds one: a marker of a later acknowledge is
\* returned in no case.
C18_FirstMarkedAckWins ==
    pc = "extract_done" =>
        IF MarkedAcks = {} THEN corr[1].ticket = None
        ELSE corr[1].ticket = MarkerTicket(GivenAcks[Earliest(MarkedAcks)])

\* A plain note, then a marker of ticket 5, then a marker of ticket 70: 5 was
\* returned.
C18_Witness ==
    /\ pc = "extract_done"
    /\ GivenAcks = <<MsgPlain, MsgTicket5, MsgTicket7>>
    /\ corr[1].ticket = <<"5">>

\* ------------------------------------------------------------------ C19
\* The closing annotation is nowhere: no event.acknowledge call was made and
\* no event holds a CITSmartTicketClosed message.
NoClosingAnnotation ==
    /\ \A i \in 1..Len(zcalls) : zcalls[i].method # "event.acknowledge"
    /\ \A i \in 1..Len(db) : \A k \in 1..Len(db[i].acknowledges) :
         \A x \in 1..Len(db[i].acknowledges[k]) : db[i].acknowledges[k][x] # "C"

\* C19: in the command zabbix, once the correlation has returned without a
\* ticket (with or without the id of a problem event), main does nothing but
\* end the process with exit status 2: no call is made to the ticketing
\* system (no login, restore, group listing, capture, validation, save), no
\* line is written to the ticket log and nothing is written to the
\* monitoring system.
C19_NoTicketNoAction ==
    ( args.cmd = "zabbix" /\ corr # None /\ corr[1].ticket = None )
    => /\ pc \in {"corr_done", "exited"}
       /\ pc = "exited" => exit = Some(2)
       /\ pc = "corr_done" => exit = None
       /\ trace = <<>>
       /\ audit = <<>>
       /\ NoClosingAnnotation

\* The correlation returned no ticket together with the id of the trigger's
\* most recent problem event, and the process has ended.
C19_Witness ==
    /\ args.cmd = "zabbix"
    /\ corr = Some([ticket |-> None, pev |-> Some(1)])
    /\ pc = "exited"
    /\ exit = Some(2)
    /\ trace = <<>>

\* ------------------------------------------------------------------ C20
\* The positions of the trace that hold a call of the given kind (open.py).
OpenStepsOf(op) == {i \in 1..Len(trace) : trace[i].op = op}

\* The login of the run was answered with a status other than 200, or raised.
OpenLoginFailed ==
    /\ trace # <<>>
    /\ trace[1].op = "login"
    /\ trace[1].status \in {"http_error", "raise"}

\* C20: in every command of open.py, once the login was refused
\* or raised, the login is the only call made to the ticketing system: no
\* service request was added, no pending request committed, no activity
\* opened and no delegation sent; no ticket number exists, nothing was
\* written to the ticket log or to the monitoring system, the run has ended,
\* and executar_fluxo_completo has returned False.
C20_OpenLoginFailureStops ==
    OpenLoginFailed =>
        /\ Len(trace) = 1
        /\ OpenStepsOf("add") \cup OpenStepsOf("commit")
             \cup OpenStepsOf("activity") \cup OpenStepsOf("delegate") = {}
        /\ pc = "exited"
        /\ ticket_number = None
        /\ audit = <<>>
        /\ zcalls = <<>>
        /\ ret # Some(TRUE)
        /\ args.cmd = "fluxo" => ret = Some(FALSE)

\* The login of executar_fluxo_completo raised and False was returned.
C20_Witness ==
    /\ args.cmd = "fluxo"
    /\ OpenLoginFailed
    /\ trace[1].status = "raise"
    /\ ret = Some(FALSE)
    /\ pc = "exited"

\* The login of the command zabbix was refused for a problem event.
C20_WitnessZabbix ==
    /\ args.cmd = "zabbix"
    /\ OpenLoginFailed
    /\ trace[1].status = "http_error"
    /\ pc = "exited"

\* ------------------------------------------------------------------ C21
\* The submission of the service request was refused or raised.
OpenAddFailed ==
    \E i \in OpenStepsOf("add") : trace[i].status \in {"http_error", "raise"}

\* C21 as stated: once the submission of the service request was refused or
\* raised, no commit of the pending requests is made and the operation does
\* not return success.
C21_AddFailureStops ==
    OpenAddFailed =>
        /\ OpenStepsOf("commit") = {}
        /\ ret # Some(TRUE)

\* What the command zabbix does, and the command fluxo does not: after a
\* failed submission the run ends without a commit.
C21_ZabbixCommandStops ==
    (args.cmd = "zabbix" /\ OpenAddFailed) =>
        /\ Len(trace) = 2
        /\ pc = "exited"
        /\ ticket_number = None
        /\ zcalls = <<>>

\* ------------------------------------------------------------------ C22
\* The commit was answered with status 200 and a body no ticket number could
\* be taken from.
CommitWithoutTicket ==
    \E i \in OpenStepsOf("commit") :
        trace[i].status \in {"json_noticket", "text_noticket"}

C22_WitnessFluxo ==
    /\ args.cmd = "fluxo"
    /\ CommitWithoutTicket
    /\ ret = Some(TRUE)

\* ------------------------------------------------------------------ C23
\* C23 as stated: a run of the command fluxo or zabbix that obtained a
\* ticket number from the commit has, when it ends, sent a delegation
\* request, and ends as it does whatever the delegation was answered with:
\* executar_fluxo_completo returns True, the command zabbix goes on to
\* write the marker.
C23_TicketAlwaysDelegated ==
    ( /\ args.cmd \in {"fluxo", "zabbix"}
      /\ pc = "exited"
      /\ ticket_number # None )
    => /\ OpenStepsOf("delegate") # {}
       /\ args.cmd = "fluxo" => ret = Some(TRUE)
       /\ args.cmd = "zabbix" =>
            \E i \in 1..Len(zcalls) : zcalls[i].method = "event.acknowledge"

\* What holds of the command zabbix: with a ticket number the delegation is
\* sent once, for the ticket number or the id restoreRequest gave for it, and
\* the marker is written after it whatever the delegation was answered with.
C23_ZabbixCommandDelegates ==
    ( /\ args.cmd = "zabbix"
      /\ pc = "exited"
      /\ ticket_number # None )
    => /\ Cardinality(OpenStepsOf("delegate")) = 1
       /\ trace[Len(trace)].op = "delegate"
       /\ trace[Len(trace)].ticket \in {ticket_number, <<"9", "9">>}
       /\ Len(zcalls) = 1
       /\ zcalls[1].method = "event.acknowledge"

\* ---- C24 ----
\* The body salvar_meus_pedidos was given, once it has returned.
GivenBody == trace[1].body

\* The value of the first of the four members, in the order ticketNumber,
\* ticket, number, id, that holds an identifier; None when none does.
FieldsYield(b) ==
    IF b.type \notin {"object", "list"} THEN None
    ELSE IF \E i \in 1..Len(FieldNames) : b.members[FieldNames[i]].value # None
    THEN LET i == CHOOSE n \in 1..Len(FieldNames) :
                    /\ b.members[FieldNames[n]].value # None
                    /\ \A m \in 1..(n - 1) : b.members[FieldNames[m]].value = None
         IN b.members[FieldNames[i]].value
    ELSE None

\* The patterns that match somewhere in a text.
Matching(t) == { k \in patterns : \E i \in 1..Len(t) : PatternAt(k, t, i) # 0 }

\* The match of the first pattern of the list that matches; None when no
\* pattern matches.
PatternsYield(t) ==
    IF Matching(t) = {} THEN None
    ELSE LET k == CHOOSE p \in Matching(t) : \A q \in Matching(t) : p <= q
             i == CHOOSE n \in 1..Len(t) :
                    /\ PatternAt(k, t, n) # 0
                    /\ \A m \in 1..(n - 1) : PatternAt(k, t, m) = 0
         IN t[PatternAt(k, t, i)].d

\* C24: the ticket number read from a body answered with status 200 is the
\* value of the first of the members ticketNumber, ticket, number, id that
\* holds an identifier; whenever the members yield none it is the match of
\* the first pattern of the list that matches the response text; it is None
\* only when neither yields one.
C24_FieldsThenPatterns ==
    pc = "ticket_done" =>
        ticket_number = (IF FieldsYield(GivenBody) # None
                         THEN FieldsYield(GivenBody)
                         ELSE PatternsYield(GivenBody.text))

\* C24, what holds of a body that is no JSON: the ticket number is the match
\* of the first pattern of the list that matches, None when none matches.
C24_TextFollowsPatternOrder ==
    (pc = "ticket_done" /\ GivenBody.type = "text") =>
        /\ trace[1].ok
        /\ ticket_number = PatternsYield(GivenBody.text)

\* C24, what holds of a JSON object or list: the ticket number is the value of
\* the first of the four members that is there, None when that value is false
\* or no member is there; the text is not looked at.
C24_JsonFollowsFirstMemberThere ==
    (pc = "ticket_done" /\ GivenBody.type \in {"object", "list"}) =>
        /\ trace[1].ok
        /\ LET there == { i \in 1..Len(FieldNames) :
                            GivenBody.members[FieldNames[i]].present } IN
           IF there = {} THEN ticket_number = None
           ELSE \E i \in there :
                  /\ \A j \in there : i <= j
                  /\ ticket_number = GivenBody.members[FieldNames[i]].value

\* ---- C26 ----
\* The CLOSE lines of the ticket log.
CloseEntries == {i \in 1..Len(audit) : audit[i].action = "CLOSE"}

\* Both saves of the close run were made and accepted.
BothSavesSucceeded ==
    /\ Cardinality(Saves) = 2
    /\ \A i \in Saves : trace[i].status = "ok"

\* C26: a CLOSE line is in the ticket log only when both saves of the run
\* succeeded, it names the ticket of the run, there is at most one per run,
\* and whether or not the line could be written a run whose two saves
\* succeeded goes on as a success: the flow returns to main and the process
\* does not end with an error.
C26_CloseAuditOnlyAfterBothSaves ==
    /\ CloseEntries # {} => BothSavesSucceeded
    /\ \A i \in CloseEntries : audit[i].ticket = FlowTicket
    /\ Cardinality(CloseEntries) <= 1
    /\ (args.cmd \in {"fluxo", "zabbix"} /\ BothSavesSucceeded) =>
          /\ FlowReturned
          /\ pc = "exited" => exit = Some(0)

\* C26 witness: both saves succeeded and the CLOSE line was written.
C26_Witness ==
    /\ BothSavesSucceeded
    /\ Cardinality(CloseEntries) = 1
    /\ pc = "exited"
    /\ exit = Some(0)

\* C26 witness: both saves succeeded, the CLOSE line could not be written,
\* and the run ended as a success all the same.
C26_WitnessWriteFailed ==
    /\ BothSavesSucceeded
    /\ CloseEntries = {}
    /\ pc = "exited"
    /\ exit = Some(0)

\* ---- C27 ----
\* The process has ended: by sys.exit, by the end of main, or by an exception
\* nothing caught.
Terminated == pc \in {"exited", "crashed"}

\* A call that failed: it raised (a transport error, a timeout) or was
\* answered with a status other than 200.
FailedStep(st) == st.status \in {"raise", "http_error"}

\* The cycle a step belongs to: one more than the saves made before it.
CycleOf(i) == 1 + Cardinality({s \in Saves : s < i})

\* The steps that write to the ticketing system.
IsWriteStep(st) == st.op \in {"capture", "save"}

\* No call to the ticketing system is made twice in a cycle, there are at
\* most two cycles, no call that failed is made again, nothing is written
\* after a write that failed, and no request to the monitoring system is made
\* twice.
NoRetry ==
    /\ \A i, j \in 1..Len(trace) :
         (i < j /\ IsRemoteCall(trace[i]) /\ trace[i].op = trace[j].op) =>
            /\ CycleOf(i) < CycleOf(j)
            /\ ~FailedStep(trace[i])
    /\ \A i \in 1..Len(trace) : CycleOf(i) <= 2
    /\ \A i \in 1..Len(trace) :
         (IsWriteStep(trace[i]) /\ FailedStep(trace[i])) =>
            /\ \A j \in (i + 1)..Len(trace) : ~IsWriteStep(trace[j])
            /\ \A c \in 1..Len(zcalls) : zcalls[c].method # "event.acknowledge"
    /\ \A c, e \in 1..Len(zcalls) :
         (c < e /\ zcalls[c].method = zcalls[e].method) =>
            <<zcalls[c].eventid, zcalls[c].objectid>> #
            <<zcalls[e].eventid, zcalls[e].objectid>>

\* C27: every run of close.py ends, and at no time has a call been made
\* twice in a cycle, a failed call been made again, or a write followed a
\* write that failed.
C27_TerminatesWithoutRetry == []NoRetry /\ <>Terminated

\* C27 witness: a run that ended on a save that failed in its second cycle.
C27_Witness ==
    /\ Terminated
    /\ Cardinality(Saves) = 2
    /\ FailedStep(trace[Len(trace)])
    /\ IsWriteStep(trace[Len(trace)])

\* ---- C28 ----
\* The acknowledge request of open.py, the first request of the round trip,
\* and whether the monitoring system holds its message as the last
\* annotation of the event.
MarkerWritten ==
    /\ Len(zcalls) >= 1
    /\ zcalls[1].method = "event.acknowledge"
    /\ db[1].acknowledges # <<>>
    /\ db[1].acknowledges[Len(db[1].acknowledges)] = zcalls[1].message
    /\ \A n \in 1..(Len(db[1].acknowledges) - 1) : ~HasMarker(db[1].acknowledges[n])

\* The written message is the key, "=", the ticket number, and nothing or the
\* separator and some text.
IsMarkerOf(msg, n) ==
    /\ Len(msg) >= 2 + Len(n)
    /\ SubSeq(msg, 1, 2 + Len(n)) = <<"K", "=">> \o n
    /\ Len(msg) > 2 + Len(n) =>
         /\ Len(msg) >= 5 + Len(n)
         /\ SubSeq(msg, 3 + Len(n), 5 + Len(n)) = <<" ", "|", " ">>

\* C28: whatever the numeric ticket number and the description, the message
\* open.py writes is the marker of that number, the first marker in it is
\* read back as exactly that number, and when the message is the event's
\* first marked annotation and close.py's event fetch is answered,
\* find_ticket_for_zabbix_event returns that number with the id of the event.
C28_MarkerRoundTrip ==
    /\ Len(zcalls) >= 1 =>
         /\ IsMarkerOf(zcalls[1].message, ticket_number)
         /\ HasMarker(zcalls[1].message)
         /\ MarkerTicket(zcalls[1].message) = ticket_number
    /\ (MarkerWritten /\ pc = "corr_done" /\ Served(zcalls[2])) =>
         corr = Some([ticket |-> ticket_number, pev |-> Some(1)])

\* C28 witness: the description held a marker of its own, the event had
\* unmarked annotations before, and the correlation returned the ticket
\* number open.py wrote.
C28_Witness ==
    /\ MarkerWritten
    /\ pc = "corr_done"
    /\ Len(db[1].acknowledges) = 3
    /\ Cardinality(MarkerStarts(zcalls[1].message)) = 2
    /\ corr = Some([ticket |-> <<"0", "7">>, pev |-> Some(1)])

\* ---- C29 ----
\* find_ticket_for_zabbix_event has returned a ticket.
TicketReturned == pc = "corr_done" /\ corr # None /\ corr[1].ticket # None

\* C29: when find_ticket_for_zabbix_event returns a ticket, it returns an
\* event id with it; that id names an event the monitoring system holds,
\* which is the queried event or a problem event of the queried event's
\* trigger, and the first marked annotation of that event carries exactly the
\* returned ticket.
C29_TicketComesWithItsEvent ==
    TicketReturned =>
        /\ corr[1].pev # None
        /\ corr[1].pev[1] \in 1..Len(db)
        /\ QueriedExists
        /\ \/ corr[1].pev[1] = args.event_id
           \/ /\ db[corr[1].pev[1]].objectid = Queried.objectid
              /\ db[corr[1].pev[1]].value = 1
        /\ EventTicket(db[corr[1].pev[1]].acknowledges) = corr[1].ticket

\* C29 witness: the ticket was returned with a problem event that is neither
\* the queried event nor the most recent problem event of its trigger.
C29_Witness ==
    /\ TicketReturned
    /\ corr[1].pev[1] # args.event_id
    /\ \E i \in ProblemsOf(Queried.objectid) : i > corr[1].pev[1]

\* ---- C30 ----
\* The requests that write an annotation, and the annotations of the events
\* that are closing annotations.
ClosingCalls == {c \in 1..Len(zcalls) : zcalls[c].method = "event.acknowledge"}

ClosingAnnotations ==
    UNION { { <<i, k>> : k \in { n \in 1..Len(db[i].acknowledges) :
                                   /\ db[i].acknowledges[n] # <<>>
                                   /\ db[i].acknowledges[n][1] = "C" } } :
            i \in 1..Len(db) }

\* A login, restore, group listing, capture or save of the run failed.
FlowStepFailed ==
    \E i \in 1..Len(trace) :
        /\ trace[i].op \in {"login", "restore", "groups", "capture", "save"}
        /\ FailedStep(trace[i])

\* C30: in the command zabbix the closing annotation is requested at most
\* once, only after both saves of the run succeeded, on the problem event the
\* correlation returned and with the ticket it returned; an event holds a
\* closing annotation only if that request was made, and only that event;
\* and in a run in which a login, restore, capture or save failed nothing is
\* requested and no event holds one.
C30_ClosingAnnotationOnlyAfterClose ==
    /\ Cardinality(ClosingCalls) <= 1
    /\ \A c \in ClosingCalls :
         /\ args.cmd = "zabbix"
         /\ BothSavesSucceeded
         /\ corr[1].pev # None
         /\ zcalls[c].eventid = corr[1].pev
         /\ zcalls[c].message = <<"C", "=">> \o corr[1].ticket
    /\ \A a \in ClosingAnnotations :
         /\ ClosingCalls # {}
         /\ a[1] = corr[1].pev[1]
    /\ FlowStepFailed => (ClosingCalls = {} /\ ClosingAnnotations = {})

\* C30 witness: the command was given a recovery event, both saves
\* succeeded, and the problem event of the trigger holds the closing
\* annotation.
C30_Witness ==
    /\ BothSavesSucceeded
    /\ ClosingCalls # {}
    /\ corr[1].pev[1] # args.event_id
    /\ \E a \in ClosingAnnotations : a[1] = corr[1].pev[1]

\* C30 witness: the second save failed and nothing was written.
C30_WitnessSaveFailed ==
    /\ args.cmd = "zabbix"
    /\ Cardinality(Saves) = 2
    /\ FlowStepFailed
    /\ ClosingCalls = {}
    /\ pc = "exited"

\* ---- C31 ----
\* The events that hold a closing annotation, and the ticket the first
\* closing annotation of an event names.
ClosedEvents == { a[1] : a \in ClosingAnnotations }

ClosedTicket(i) ==
    LET k == CHOOSE n \in 1..Len(db[i].acknowledges) :
                /\ <<i, n>> \in ClosingAnnotations
                /\ \A m \in 1..(n - 1) : <<i, m>> \notin ClosingAnnotations
    IN  SubSeq(db[i].acknowledges[k], 3, Len(db[i].acknowledges[k]))

\* close.py runs while an event holds the closing annotation of an earlier
\* run.
RunsAgain == ClosedEvents # {} /\ pc \notin {"exited", "crashed"}

\* C31: a closing annotation retires nothing.  When close.py is called again
\* for the event that holds the closing annotation, or for a recovery of
\* that event's trigger, and its requests are answered, the correlation
\* returns the ticket the annotation names and the same problem event, and
\* main goes on to the closing flow for that ticket.
C31_ClosingKeepsCorrelation ==
    ( /\ RunsAgain
      /\ pc \in {"corr_done", "login"}
      /\ corr # None
      /\ QueriedExists
      /\ \A c \in 1..Len(zcalls) : Served(zcalls[c])
      /\ \E i \in ClosedEvents : db[i].objectid = Queried.objectid )
    => /\ corr[1].pev # None
       /\ corr[1].pev[1] \in ClosedEvents
       /\ corr[1].ticket = ClosedTicket(corr[1].pev[1])
       /\ corr[1].ticket # None

\* C31 witness: the run called again for a recovery created after the close
\* has made both saves for the ticket already closed and is about to write
\* a second closing annotation.
C31_Witness ==
    /\ RunsAgain
    /\ pc = "ack"
    /\ BothSavesSucceeded
    /\ args.event_id = 3
    /\ corr[1].ticket = ClosedTicket(1)

\* ---- C32 ----
\* open.py was called with the command zabbix, an event id and an event
\* value that is not the text 1.
NotAProblemEvent ==
    /\ "argc" \in DOMAIN args
    /\ args.cmd = "zabbix"
    /\ args.argc = "ok"
    /\ args.event_value # "1"

\* No annotation of an event holds the key of the ticket marker, and no
\* request was made to the monitoring system.
NoMarkerWritten ==
    /\ zcalls = <<>>
    /\ \A i \in 1..Len(db) : \A k \in 1..Len(db[i].acknowledges) :
         \A x \in 1..Len(db[i].acknowledges[k]) : db[i].acknowledges[k][x] # "K"

\* C32: with an event value other than 1 the command zabbix of open.py makes
\* no request to the ticketing system (no login, no submission, no commit),
\* obtains no ticket number, writes no line to the ticket log and no
\* annotation to the monitoring system, and ends at once.
C32_OnlyProblemEventsOpenTickets ==
    NotAProblemEvent =>
        /\ trace = <<>>
        /\ ticket_number = None
        /\ audit = <<>>
        /\ NoMarkerWritten
        /\ pc \in {"o_main", "exited"}

\* C32 witness: the run for an event value that reads 01 has ended without
\* having done anything.
C32_Witness ==
    /\ NotAProblemEvent
    /\ args.event_value = "01"
    /\ pc = "exited"
    /\ trace = <<>>

\* ---- C33 ----
\* The requests event.acknowledge the run of open.py has sent.
MarkerCalls == {i \in 1..Len(zcalls) : zcalls[i].method = "event.acknowledge"}

\* The run submitted the request, committed it with status 200, and a ticket
\* number was recovered from the commit's response.
TicketOpened ==
    /\ ticket_number # None
    /\ \E i \in OpenStepsOf("add") : trace[i].status = "ok"
    /\ \E i \in OpenStepsOf("commit") :
         /\ trace[i].status \in {"json_ticket", "text_ticket"}
         /\ trace[i].ticket = ticket_number

\* The delegation of the run was attempted.
DelegationAttempted == OpenStepsOf("delegate") # {}

\* What holds of the marker in every state of a run of open.py.
MarkerOnlyForOpenedTicket ==
    /\ MarkerCalls # {} =>
         /\ args.cmd = "zabbix"
         /\ TicketOpened
         /\ DelegationAttempted
         /\ Len(zcalls) = 1
         /\ zcalls[1].eventid = Some(args.event_id)
         /\ IsMarkerOf(zcalls[1].message, ticket_number)
         /\ pc = "exited"
    /\ MarkerCalls = {} => NoMarkerWritten
    /\ ( /\ args.cmd = "zabbix"
         /\ pc = "exited"
         /\ TicketOpened ) => MarkerCalls # {}
    /\ ( /\ args.cmd = "zabbix"
         /\ pc = "exited"
         /\ ~TicketOpened ) => MarkerCalls = {}

\* What holds of the step that writes the marker, and of the steps that write
\* the ticket log or make a request to CITSmart.
MarkerWrittenLast ==
    /\ zcalls' # zcalls =>
         /\ DelegationAttempted
         /\ audit' = audit
         /\ trace' = trace
    /\ (audit' # audit \/ trace' # trace) => zcalls' = <<>>

\* C33: in the command zabbix of open.py the marker is written to the event
\* only when the submission and the commit were both answered with 200 and a
\* ticket number was recovered; it is written once, for that ticket and the
\* event of the command line, as the last request of the run, after the line
\* OPEN of the ticket log and after the delegation, whatever the delegation
\* was answered with; in every other run nothing is written to the event.
C33_MarkerAfterTicketAndDelegation ==
    []MarkerOnlyForOpenedTicket /\ [][MarkerWrittenLast]_vars

\* The marker was written in a run whose line OPEN is in the ticket log and
\* whose delegation was not answered with 200.
C33_Witness ==
    /\ args.cmd = "zabbix"
    /\ pc = "exited"
    /\ MarkerCalls # {}
    /\ \E i \in 1..Len(audit) : audit[i].action = "OPEN"
    /\ \E i \in OpenStepsOf("delegate") : trace[i].status # "ok"

\* ---- C34 ----
\* The timestamps the ticketing system returns.
ServerTimestamps == {"srv_restore1", "srv_capture", "srv_restore2"}

\* The save_or_update calls of the run.
SaveSteps == {i \in 1..Len(trace) : trace[i].op = "save"}

\* The last step before step i in which a timestamp was received from the
\* server; 0 when there is none.
LastServerTimestamp(i) ==
    LET S == {k \in 1..(i - 1) : /\ trace[k].op \in {"restore", "capture"}
                                 /\ trace[k].dt \in ServerTimestamps}
    IN IF S = {} THEN 0 ELSE CHOOSE k \in S : \A m \in S : m <= k

\* C34: the dtLastModification of every save_or_update payload of a run of
\* close.py is the value of _now_dt() that the aplicar_resolucao just before
\* the call put into the representation, in the first cycle and in the
\* second; it is not the timestamp restoreRequest or capturarTarefa returned,
\* nor the absence of one.
C34_SavesCarryLocalTimestamp ==
    \A i \in SaveSteps :
        /\ i > 1
        /\ trace[i - 1].op = "apply"
        /\ trace[i].dt = trace[i - 1].dt
        /\ trace[i].dt = "local"
        /\ trace[i].dt \notin ServerTimestamps

\* The second save was made after restoreRequest returned a server timestamp
\* in both cycles and capturarTarefa returned one too.
C34_Witness ==
    /\ Cardinality(SaveSteps) = 2
    /\ \E r1, c, r2 \in 1..Len(trace) :
         /\ trace[r1].op = "restore" /\ trace[r1].dt = "srv_restore1"
         /\ trace[c].op = "capture" /\ trace[c].dt = "srv_capture"
         /\ trace[r2].op = "restore" /\ trace[r2].dt = "srv_restore2"
    /\ dt_cap = "srv_capture"
    /\ \A i \in SaveSteps : LastServerTimestamp(i) # 0

====
